---- MODULE Spec2Model ----
(***************************************************************************)
(* Model of the Telegram survey bot of src/: the per-user session state    *)
(* machine of handlers.py (user_data, user_state, odp_user_state and the   *)
(* twelve handlers registered by setup_handlers), the coordinate           *)
(* extraction of utils.py and the nearest-ODP search of odp_service.py.    *)
(*                                                                         *)
(* Scheduling.  main.py builds TelegramClient('bot', API_ID, API_HASH)     *)
(* with the library defaults, so every inbound update is dispatched in a   *)
(* task of its own: the handlers registered with client.on are tried in    *)
(* registration order, a handler that raises is logged and the next one    *)
(* runs, and a task gives up control only at an await that really          *)
(* suspends (event.reply, event.edit, event.download_media,                *)
(* client.send_message).  The code between two such awaits is one atomic   *)
(* step; steps of different tasks interleave freely.                       *)
(***************************************************************************)
EXTENDS Integers, Sequences, FiniteSets, Bags, TLC

VARIABLES
    user_data,       \* handlers.py:31  dict user_id -> UserData
    user_state,      \* handlers.py:32  dict user_id -> 'started' | 'adding'
    odp_user_state,  \* handlers.py:33  dict user_id -> bool
    tasks,           \* the update dispatches in flight, each suspended at an await
    save_calls,      \* number of save_to_spreadsheet calls made, per UserData object
    last_saved,      \* the dict handed to save_to_spreadsheet by the last step, if any
    out,             \* the message the last step emitted (reply, edit, channel push)
    raised,          \* the handlers that raised an exception in the last step
    nsid,            \* number of UserData objects constructed so far
    received,        \* number of updates received since the initial state
    probe            \* a library function called on its own: its arguments, then its result

vars == <<user_data, user_state, odp_user_state, tasks, save_calls, last_saved, out, raised,
          nsid, received, probe>>

-----------------------------------------------------------------------------
(* Bounds of the model.                                                    *)

\* updates received after the initial state
MaxEvents == 2

-----------------------------------------------------------------------------
(* Python values.                                                          *)

\* the value of v, computed once, handed to F
Bind(v, F(_)) == CHOOSE x \in {F(y) : y \in {v}} : TRUE

\* the set S, its members listed once
Listed(S) == {x : x \in S}

\* Python's None in a string-valued slot
None == "<None>"
\* None, or an empty dict, in a dict-valued slot
NoDict == <<>>

\* dict operations
Has(d, k) == k \in DOMAIN d
Put(d, k, v) == [x \in (DOMAIN d) \cup {k} |-> IF x = k THEN v ELSE d[x]]
Del(d, k) == [x \in (DOMAIN d) \ {k} |-> d[x]]

-----------------------------------------------------------------------------
(* Strings: the tests the code makes on message texts.                     *)

Digits == {"0", "1", "2", "3", "4", "5", "6", "7", "8", "9"}
Char(s, i) == SubSeq(s, i, i)

\* str.startswith / re.match of a literal pattern at the start of the text
StartsWith(s, p) == Len(s) >= Len(p) /\ SubSeq(s, 1, Len(p)) = p

\* `p in s`
Contains(s, p) == \E i \in 1..(Len(s) - Len(p) + 1) : SubSeq(s, i, i + Len(p) - 1) = p

\* str.strip() leaves nothing: the text is empty or only blanks
IsBlank(s) == \A i \in 1..Len(s) : Char(s, i) = " "

\* end (exclusive) of the longest run of digits starting at i; i itself when none
RECURSIVE DigitsEnd(_, _)
DigitsEnd(s, i) == IF i <= Len(s) /\ Char(s, i) \in Digits THEN DigitsEnd(s, i + 1) ELSE i

\* -?\d+\.\d+ matched at position i: the position after the match, 0 when no match.
\* \d+ is greedy and the remainder of each pattern used here starts with a
\* non-digit, so the greedy match is the only candidate.
NumberEnd(s, i) ==
    Bind(IF i <= Len(s) /\ Char(s, i) = "-" THEN i + 1 ELSE i, LAMBDA j :
    Bind(DigitsEnd(s, j), LAMBDA k :
    Bind(IF k > j /\ k <= Len(s) /\ Char(s, k) = "." THEN DigitsEnd(s, k + 1) ELSE 0, LAMBDA m :
         IF m > k + 1 THEN m ELSE 0)))

\* (-?\d+\.\d+),(-?\d+\.\d+) matched at position i: f"{lat},{lng}" or None
PairAt(s, i) ==
    Bind(NumberEnd(s, i), LAMBDA a :
    Bind(IF a > 0 /\ a <= Len(s) /\ Char(s, a) = "," THEN NumberEnd(s, a + 1) ELSE 0, LAMBDA b :
         IF b > 0 THEN SubSeq(s, i, b - 1) ELSE None))

\* the least member of a non-empty set of positions
Leftmost(P) == CHOOSE i \in P : \A j \in P : i <= j

\* re.search(r'@(-?\d+\.\d+),(-?\d+\.\d+)', s): the leftmost match, or None
SearchAt(s) ==
    Bind({i \in 1..Len(s) : Char(s, i) = "@" /\ PairAt(s, i + 1) # None}, LAMBDA P :
         IF P = {} THEN None ELSE PairAt(s, Leftmost(P) + 1))

\* re.search(r'[?&]q=(-?\d+\.\d+),(-?\d+\.\d+)', s)
SearchQ(s) ==
    Bind({i \in 1..Len(s) : /\ Char(s, i) \in {"?", "&"}
                            /\ i + 2 <= Len(s)
                            /\ SubSeq(s, i + 1, i + 2) = "q="
                            /\ PairAt(s, i + 3) # None}, LAMBDA P :
         IF P = {} THEN None ELSE PairAt(s, Leftmost(P) + 3))

\* re.search(r'(-?\d+\.\d+),(-?\d+\.\d+)', s)
SearchBare(s) ==
    Bind({i \in 1..Len(s) : PairAt(s, i) # None}, LAMBDA P :
         IF P = {} THEN None ELSE PairAt(s, Leftmost(P)))

-----------------------------------------------------------------------------
(* Floats.  A float is modelled by its value in thousandths; the texts and *)
(* sheets of the model carry at most three decimals.                       *)

DigitVal(c) ==
    CASE c = "0" -> 0 [] c = "1" -> 1 [] c = "2" -> 2 [] c = "3" -> 3 [] c = "4" -> 4
      [] c = "5" -> 5 [] c = "6" -> 6 [] c = "7" -> 7 [] c = "8" -> 8 [] c = "9" -> 9

DigitChr(n) == Char("0123456789", n + 1)

\* int() of the digits s[i..j-1]
RECURSIVE IntOf(_, _, _)
IntOf(s, i, j) == IF j <= i THEN 0 ELSE 10 * IntOf(s, i, j - 1) + DigitVal(Char(s, j - 1))

\* whether float(s) succeeds on a cell or a matched group: -?\d+(\.\d*)? here
IsFloat(s) ==
    LET j == IF Len(s) >= 1 /\ Char(s, 1) = "-" THEN 2 ELSE 1
        k == DigitsEnd(s, j)
    IN  /\ k > j
        /\ \/ k = Len(s) + 1
           \/ Char(s, k) = "." /\ DigitsEnd(s, k + 1) = Len(s) + 1

\* float(s), in thousandths
ParseFloat(s) ==
    LET neg == Char(s, 1) = "-"
        j == IF neg THEN 2 ELSE 1
        k == DigitsEnd(s, j)
        e == Len(s) + 1
        f1 == IF k + 1 < e THEN DigitVal(Char(s, k + 1)) ELSE 0
        f2 == IF k + 2 < e THEN DigitVal(Char(s, k + 2)) ELSE 0
        f3 == IF k + 3 < e THEN DigitVal(Char(s, k + 3)) ELSE 0
        v == 1000 * IntOf(s, j, k) + 100 * f1 + 10 * f2 + f3
    IN  IF neg THEN 0 - v ELSE v

\* str(int)
RECURSIVE IntStr(_)
IntStr(n) == IF n < 10 THEN DigitChr(n) ELSE IntStr(n \div 10) \o DigitChr(n % 10)

\* str(x) / f"{x}" of a float: shortest repr, always with a fractional part
FloatStr(x) ==
    LET a == IF x < 0 THEN 0 - x ELSE x
        f == a % 1000
        frac == IF f % 100 = 0 THEN DigitChr(f \div 100)
                ELSE IF f % 10 = 0 THEN DigitChr(f \div 100) \o DigitChr((f \div 10) % 10)
                ELSE DigitChr(f \div 100) \o DigitChr((f \div 10) % 10) \o DigitChr(f % 10)
    IN  (IF x < 0 THEN "-" ELSE "") \o IntStr(a \div 1000) \o "." \o frac

-----------------------------------------------------------------------------
(* utils.py                                                                *)

\* the outcome of requests.get(link, ...): it raised, or a response
NetError == [raised |-> TRUE, url |-> "", text |-> ""]
Response(url, text) == [raised |-> FALSE, url |-> url, text |-> text]

\* a variant of InString that tries the 'q=' pattern first
InStringQFirst(s) == IF SearchQ(s) # None THEN SearchQ(s) ELSE SearchAt(s)

\* the '@' pattern, then the 'q=' pattern, on the text s: the first match, or None
InString(s) == IF SearchAt(s) # None THEN SearchAt(s) ELSE SearchQ(s)

\* a variant of FromResponse that scans the body before the final URL
BodyFirst(net) ==
    IF SearchBare(net.text) # None THEN SearchBare(net.text) ELSE InString(net.url)

\* lines 46-64: the patterns on the final URL, then the bare pair in the body
FromResponse(net) ==
    IF InString(net.url) # None THEN InString(net.url) ELSE SearchBare(net.text)

\* a variant of Resolve that lets the exception of requests.get through
ResolveRaises(net) ==
    IF net.raised THEN [coords |-> None, raised |-> TRUE]
    ELSE [coords |-> FromResponse(net), raised |-> FALSE]

\* lines 43-67: requests.get and what follows it; `except Exception` logs
\* whatever is raised there and the function goes on to `return None`
Resolve(net) ==
    IF net.raised THEN [coords |-> None, raised |-> FALSE]
    ELSE [coords |-> FromResponse(net), raised |-> FALSE]

\* a variant of Extract that resolves every non-blank link over the network
ExtractResolvesAlways(link, net) ==
    IF link = "" \/ IsBlank(link) THEN [coords |-> None, gets |-> 0, raised |-> FALSE]
    ELSE Bind(Resolve(net), LAMBDA r :
              [coords |-> IF InString(link) # None THEN InString(link) ELSE r.coords,
               gets |-> 1, raised |-> r.raised])

\* one call of extract_coords_from_gmaps_link(link), net being what
\* requests.get does if called: coords is the value returned, gets the number
\* of calls of requests.get, raised whether an exception leaves the function
Extract(link, net) ==
    IF link = "" \/ IsBlank(link) THEN [coords |-> None, gets |-> 0, raised |-> FALSE]
    ELSE Bind(InString(link), LAMBDA found :
              IF found # None THEN [coords |-> found, gets |-> 0, raised |-> FALSE]
              ELSE Bind(Resolve(net), LAMBDA r :
                        [coords |-> r.coords, gets |-> 1, raised |-> r.raised]))

\* whether extract_coords_from_gmaps_link(link) reaches requests.get
IssuesGet(link) == Extract(link, NetError).gets = 1

\* the value extract_coords_from_gmaps_link(link) returns
extract_coords_from_gmaps_link(link, net) == Extract(link, net).coords

\* coords.split(','): the two parts of a matched "lat,lng"
RECURSIVE CommaAt(_, _)
CommaAt(s, i) == IF i > Len(s) \/ Char(s, i) = "," THEN i ELSE CommaAt(s, i + 1)

SplitLat(c) == SubSeq(c, 1, CommaAt(c, 1) - 1)
SplitLon(c) == SubSeq(c, CommaAt(c, 1) + 1, Len(c))

-----------------------------------------------------------------------------
(* odp_service.py.  `data` is what sheets_manager.get_sheet_data_by_name   *)
(* returned for the tab "ODP": None, or the list of rows (lists of cell    *)
(* strings), the first being the header.  A DataFrame is the sequence of   *)
(* its rows; a function that may return None returns [ok, rows].           *)

SheetUnavailable == [loaded |-> FALSE, rows |-> <<>>]
SheetData(rows) == [loaded |-> TRUE, rows |-> rows]

Unavailable == [ok |-> FALSE, rows |-> <<>>]
Frame(rows) == [ok |-> TRUE, rows |-> rows]

RequiredColumns == <<"STO", "ODP", "LATITUDE", "LONGITUDE">>

\* position of column c in the header h, 0 when absent
ColumnOf(h, c) == IF \E i \in 1..Len(h) : h[i] = c
                  THEN CHOOSE i \in 1..Len(h) : h[i] = c /\ \A j \in 1..(i - 1) : h[j] # c
                  ELSE 0

\* ODPService.get_odp_dataframe: None unless the sheet has a header and a row
get_odp_dataframe(data) ==
    IF data.loaded /\ Len(data.rows) > 1
    THEN [ok |-> TRUE, columns |-> data.rows[1], rows |-> Tail(data.rows)]
    ELSE [ok |-> FALSE, columns |-> <<>>, rows |-> <<>>]

Abs(x) == IF x < 0 THEN 0 - x ELSE x

\* geodesic(a, b).km: the model measures by the sum of the coordinate
\* differences (in thousandths of a degree); like the geodesic distance it is
\* zero on equal points only, symmetric, and grows along each axis
Distance(lat1, lon1, lat2, lon2) == Abs(lat1 - lat2) + Abs(lon1 - lon2)

\* sort_values(by="DISTANCE_KM") is called without `kind`: pandas sorts with
\* its default, quicksort, which does not promise any order among rows at the
\* same distance.  `ties` is the order the sort happens to give them: the
\* order of the sheet ("kept") or the opposite one ("reversed")
TieOrders == {"kept", "reversed"}

\* insertion of row r into a sorted sequence: after the rows at the same
\* distance when ties are kept, before them when they are reversed
RECURSIVE InsertByDistance(_, _, _)
InsertByDistance(sorted, r, ties) ==
    IF sorted = <<>> THEN <<r>>
    ELSE IF \/ Head(sorted).DISTANCE_KM < r.DISTANCE_KM
            \/ (ties = "kept" /\ Head(sorted).DISTANCE_KM = r.DISTANCE_KM)
         THEN <<Head(sorted)>> \o InsertByDistance(Tail(sorted), r, ties)
         ELSE <<r>> \o sorted

\* a variant of SortByDistance that leaves the rows in sheet order
KeepSheetOrder(rows, ties) == rows

RECURSIVE SortByDistance(_, _)
SortByDistance(rows, ties) ==
    IF rows = <<>> THEN <<>>
    ELSE InsertByDistance(SortByDistance(SubSeq(rows, 1, Len(rows) - 1), ties),
                          rows[Len(rows)], ties)

\* DataFrame.head(limit)
FrameHead(rows, limit) == SubSeq(rows, 1, IF Len(rows) < limit THEN Len(rows) ELSE limit)

\* ODPService.find_nearest_odp(user_lat, user_lon, limit) over the sheet `data`,
\* with the sort ordering rows at the same distance as `ties` says
find_nearest_odp(data, user_lat, user_lon, limit, ties) ==
    LET df == get_odp_dataframe(data)
        col(c) == ColumnOf(df.columns, c)
        cell(r, c) == df.rows[r][col(c)]
        \* dropna drops NaN cells only: the loader delivers strings, so no row goes
        kept == 1..Len(df.rows)
        located == [r \in kept |->
                      [STO |-> cell(r, "STO"), ODP |-> cell(r, "ODP"),
                       LATITUDE |-> ParseFloat(cell(r, "LATITUDE")),
                       LONGITUDE |-> ParseFloat(cell(r, "LONGITUDE")),
                       AVAI |-> IF col("AVAI") = 0 THEN "N/A" ELSE cell(r, "AVAI"),
                       DISTANCE_KM |-> Distance(user_lat, user_lon,
                                                ParseFloat(cell(r, "LATITUDE")),
                                                ParseFloat(cell(r, "LONGITUDE")))]]
    IN  IF ~df.ok THEN Unavailable
        ELSE IF \E i \in 1..Len(RequiredColumns) : col(RequiredColumns[i]) = 0 THEN Unavailable
        \* astype(float) raises on a cell that is no number; the except returns None
        ELSE IF \E r \in kept : ~IsFloat(cell(r, "LATITUDE")) \/ ~IsFloat(cell(r, "LONGITUDE"))
             THEN Unavailable
        ELSE Frame(FrameHead(SortByDistance(located, ties), limit))

\* a variant of get_complete_odp_info that answers with a placeholder ODP
\* when the search found none
PlaceholderOdpInfo(data, user_lat, user_lon, ties) ==
    [STO |-> "N/A", ODP |-> "N/A", LATITUDE |-> "0.0", LONGITUDE |-> "0.0",
     AVAI |-> None, DISTANCE_KM |-> "0.0"]

\* str(value) if pd.notna(value) and value != '' else None
StrOrNone(v) == IF v = "" THEN None ELSE v

\* ODPService.get_complete_odp_info(user_lat, user_lon): a dict, or None
get_complete_odp_info(data, user_lat, user_lon, ties) ==
    LET nearest_odp == find_nearest_odp(data, user_lat, user_lon, 1, ties)
    IN  IF ~nearest_odp.ok \/ nearest_odp.rows = <<>> THEN NoDict
        ELSE LET first_row == nearest_odp.rows[1]
             IN  [STO |-> StrOrNone(first_row.STO),
                  ODP |-> StrOrNone(first_row.ODP),
                  LATITUDE |-> FloatStr(first_row.LATITUDE),
                  LONGITUDE |-> FloatStr(first_row.LONGITUDE),
                  AVAI |-> StrOrNone(first_row.AVAI),
                  DISTANCE_KM |-> FloatStr(first_row.DISTANCE_KM)]

-----------------------------------------------------------------------------
(* models.py                                                               *)

JENIS_USAHA == <<"Hotel", "Manufaktur", "Cafe", "Tempat Wisata", "Rumah Sakit",
                 "Sekolah", "Industri", "Distributor", "Pergudangan">>

INTERNET_OPTIONS == <<"IndiHome", "Indibiz", "Biznet", "First Media", "MNC Play",
                      "MyRepublic", "Oxygen", "CBN", "XL Home", "Indosat GIG",
                      "Iconnet", "ISP Lokal">>

KECEPATAN_OPTIONS == <<"10-50 Mbps", "50-75 Mbps", "75-100 Mbps", ">100 Mbps">>

BIAYA_OPTIONS == <<"<200.000", "200.000-300.000", "300.000-400.000",
                   "400.000-700.000", ">700.000">>

\* the order in which the prompts of handlers.py walk UserData.step
StepOrder == <<"nama_usaha", "pic", "status_pic", "hpwa", "jenis_usaha", "internet",
               "kecepatan", "biaya", "voc", "location", "photo">>

StepIndex(s) == CHOOSE i \in 1..Len(StepOrder) : StepOrder[i] = s

\* the attributes of UserData that the steps before photo collect, one each
CollectedFields == {"nama_usaha", "pic", "status_pic", "hpwa", "jenis_usaha", "internet",
                    "kecepatan", "biaya", "voc", "location"}

\* UserData.__init__(user_id, credentials); sid is the identity of the object
UserData(sid, user_id, credentials) ==
    [sid |-> sid, user_id |-> user_id,
     nama_sa |-> credentials.nama_sa, witel |-> credentials.witel,
     telda |-> credentials.telda, cluster |-> credentials.cluster,
     step |-> "nama_usaha",
     sto |-> None, odp |-> None, nama_usaha |-> None, pic |-> None, status_pic |-> None,
     hpwa |-> None, jenis_usaha |-> None, internet |-> None, kecepatan |-> None,
     biaya |-> None, voc |-> None, location |-> None, link_gmaps |-> None,
     file_link |-> None, odp_info |-> NoDict]

\* the keys odp_info adds to the record: f'odp_{key.lower()}' of the columns
\* that are not excluded (LATITUDE, LONGITUDE, AVAI, DISTANCE_KM)
OdpFields(d) ==
    IF d.odp_info = NoDict THEN <<>>
    ELSE [odp_sto |-> d.odp_info.STO, odp_odp |-> d.odp_info.ODP]

\* UserData.to_dict()
to_dict(d) ==
    [user_id |-> d.user_id, nama_sa |-> d.nama_sa, witel |-> d.witel, telda |-> d.telda,
     sto |-> d.sto, odp |-> d.odp, cluster |-> d.cluster, nama_usaha |-> d.nama_usaha,
     pic |-> d.pic, status_pic |-> d.status_pic, hpwa |-> d.hpwa,
     jenis_usaha |-> d.jenis_usaha, internet |-> d.internet, kecepatan |-> d.kecepatan,
     biaya |-> d.biaya, voc |-> d.voc, location |-> d.location,
     link_gmaps |-> d.link_gmaps, file_link |-> d.file_link] @@ OdpFields(d)

\* UserCredentials.to_dict(), as database.get_user_credentials returns it
Credentials(kode, nama, witel, telda, cluster) ==
    [kode |-> kode, nama_sa |-> nama, witel |-> witel, telda |-> telda, cluster |-> cluster]

-----------------------------------------------------------------------------
(* handlers.py: what a handler works on.                                   *)
(*                                                                         *)
(* S is the program state a handler reads and writes:                      *)
(*   ud user_data, us user_state, os odp_user_state, sc the count of       *)
(*   save_to_spreadsheet calls per UserData object, ls the dict of the     *)
(*   save_to_spreadsheet call made in this step, ns the number of UserData *)
(*   objects constructed, ex the handlers that raised in this step.        *)
(* e is the event; env is what the collaborators do when the handler calls *)
(* them.  A handler runs up to its next await and yields [S, pc, out]: pc  *)
(* is "next" when it returned or raised, else the await it is suspended    *)
(* at, and out is the message that await sends.                            *)

NoOut == [to |-> None, msg |-> None]
Reply(e, msg) == [to |-> e.user, msg |-> msg]

\* config.py:39
ChannelTarget == "CHANNEL_ID"

Ret(S) == [S |-> S, pc |-> "next", out |-> NoOut]
Await(S, label, o) == [S |-> S, pc |-> label, out |-> o]
\* the handler raised: the library logs it and goes on with the next handler
Raise(S, handler) == Ret([S EXCEPT !.ex = @ \cup {handler}])

\* user_data[user_id].<field> = value
SetField(S, u, field, value) == [S EXCEPT !.ud[u][field] = value]

NoGeo == [has |-> FALSE, lat |-> 0, long |-> 0]
Geo(lat, long) == [has |-> TRUE, lat |-> lat, long |-> long]

\* events.NewMessage: text is event.text ('' for media without a caption)
Message(u, text, geo, photo) ==
    [kind |-> "message", user |-> u, text |-> text, geo |-> geo, photo |-> photo]
\* events.CallbackQuery: text is the data of the pressed button
Callback(u, data) ==
    [kind |-> "callback", user |-> u, text |-> data, geo |-> NoGeo, photo |-> FALSE]

\* the keys format_welcome_message reads from the credentials dict (utils.py:117-121)
WelcomeKeys == {"nama_sa", "witel", "telda", "cluster", "sto"}

\* int(event.pattern_match.group(1)) for data matching prefix_(\d+)
ButtonIndex(data, prefix) ==
    IntOf(data, Len(prefix) + 2, DigitsEnd(data, Len(prefix) + 2))

MatchesButton(data, prefix) ==
    /\ StartsWith(data, prefix \o "_")
    /\ DigitsEnd(data, Len(prefix) + 2) > Len(prefix) + 2

\* str.strip()
RECURSIVE Strip(_)
Strip(s) == IF s # "" /\ Char(s, 1) = " " THEN Strip(SubSeq(s, 2, Len(s)))
            ELSE IF s # "" /\ Char(s, Len(s)) = " " THEN Strip(SubSeq(s, 1, Len(s) - 1))
            ELSE s

\* the lambda of gmaps_handler's filter
IsMapsLink(text) ==
    \/ Contains(text, "maps.google.com")
    \/ Contains(text, "goo.gl/maps")
    \/ Contains(text, "maps.app.goo.gl")

-----------------------------------------------------------------------------
(* handlers.py: the handlers, each up to its first await.                  *)

start_handler(S, e, env) ==
    LET S1 == [S EXCEPT !.us = Put(S.us, e.user, "started")]
    IN  IF env.creds = NoDict THEN Await(S1, "tail", Reply(e, "not_registered"))
        ELSE IF WelcomeKeys \subseteq DOMAIN env.creds
             THEN Await(S1, "tail", Reply(e, "welcome"))
             ELSE Raise(S1, "start_handler")

\* a variant of add_handler that opens a session without a profile
AddWithoutProfile(S, e, env) ==
    IF ~Has(S.us, e.user) \/ S.us[e.user] # "started"
    THEN Await(S, "tail", Reply(e, "start_first"))
    ELSE Await([S EXCEPT !.ud = Put(S.ud, e.user,
                                    UserData(S.ns + 1, e.user,
                                             IF env.creds = NoDict
                                             THEN Credentials(None, None, None, None, None)
                                             ELSE env.creds)),
                         !.us = Put(S.us, e.user, "adding"),
                         !.ns = S.ns + 1],
               "tail", Reply(e, "prompt_nama_usaha"))

add_handler(S, e, env) ==
    IF ~Has(S.us, e.user) \/ S.us[e.user] # "started"
    THEN Await(S, "tail", Reply(e, "start_first"))
    ELSE IF env.creds = NoDict THEN Await(S, "tail", Reply(e, "not_registered"))
    ELSE Await([S EXCEPT !.ud = Put(S.ud, e.user, UserData(S.ns + 1, e.user, env.creds)),
                         !.us = Put(S.us, e.user, "adding"),
                         !.ns = S.ns + 1],
               "tail", Reply(e, "prompt_nama_usaha"))

\* get_user_records returns dicts with the keys no, nama_usaha, pic, timestamp;
\* format_user_records reads record['hpwa'] of each and raises on the first
record_handler(S, e, env) ==
    IF ~Has(S.us, e.user) \/ S.us[e.user] # "started"
    THEN Await(S, "tail", Reply(e, "start_first"))
    ELSE IF env.records = 0 THEN Await(S, "tail", Reply(e, "no_records"))
    ELSE Raise(S, "record_handler")

\* a variant of odp_handler that keeps one flag for all users
OdpFlagForAll(S, e, env) ==
    Await([S EXCEPT !.os = [u \in DOMAIN S.us \cup DOMAIN S.os \cup {e.user} |-> TRUE]],
          "tail", Reply(e, "odp_prompt"))

\* the users of the model talk to the bot in private chats (event.is_private)
odp_handler(S, e, env) ==
    Await([S EXCEPT !.os = Put(S.os, e.user, TRUE)], "tail", Reply(e, "odp_prompt"))

\* the step a text step writes event.text to, and the prompt that follows
TextSteps == {"nama_usaha", "pic", "status_pic", "hpwa", "voc"}

NextOfTextStep(step) ==
    CASE step = "nama_usaha" -> "pic"
      [] step = "pic" -> "status_pic"
      [] step = "status_pic" -> "hpwa"
      [] step = "hpwa" -> "jenis_usaha"
      [] step = "voc" -> "location"

\* a variant of message_handler that keeps a text received at any other step
\* as the customer's remark
TextKeptAtAnyStep(S, e, env) ==
    IF ~Has(S.us, e.user) THEN Await(S, "tail", Reply(e, "start_first"))
    ELSE IF S.us[e.user] # "adding" THEN Ret(S)
    ELSE IF e.text # "" /\ StartsWith(e.text, "/") THEN Ret(S)
    ELSE IF ~Has(S.ud, e.user) THEN Ret(S)
    ELSE LET current_step == S.ud[e.user].step
         IN  IF current_step \in TextSteps
             THEN Await([S EXCEPT !.ud[e.user][current_step] = e.text,
                                  !.ud[e.user].step = NextOfTextStep(current_step)],
                        "tail", Reply(e, "prompt_" \o NextOfTextStep(current_step)))
             ELSE Ret(SetField(S, e.user, "voc", e.text))

message_handler(S, e, env) ==
    IF ~Has(S.us, e.user) THEN Await(S, "tail", Reply(e, "start_first"))
    ELSE IF S.us[e.user] # "adding" THEN Ret(S)
    ELSE IF e.text # "" /\ StartsWith(e.text, "/") THEN Ret(S)
    ELSE IF ~Has(S.ud, e.user) THEN Ret(S)
    ELSE LET current_step == S.ud[e.user].step
         IN  IF current_step \in TextSteps
             THEN Await([S EXCEPT !.ud[e.user][current_step] = e.text,
                                  !.ud[e.user].step = NextOfTextStep(current_step)],
                        "tail", Reply(e, "prompt_" \o NextOfTextStep(current_step)))
             ELSE Ret(S)

\* a variant of ButtonHandler that moves on without storing the choice
ButtonOnlyMovesOn(S, e, prefix, field, options, next_step, handler) ==
    IF Has(S.ud, e.user)
    THEN Await(SetField(S, e.user, "step", next_step), "tail", Reply(e, "prompt_" \o next_step))
    ELSE Ret(S)

\* jenis_handler, internet_handler, kecepatan_handler, biaya_handler
ButtonHandler(S, e, prefix, field, options, next_step, handler) ==
    LET index == ButtonIndex(e.text, prefix)
    IN  IF Has(S.ud, e.user)
        THEN IF index + 1 > Len(options) THEN Raise(S, handler)
             ELSE Await([S EXCEPT !.ud[e.user][field] = options[index + 1],
                                  !.ud[e.user].step = next_step],
                        "tail", Reply(e, "prompt_" \o next_step))
        ELSE Ret(S)

jenis_handler(S, e, env) ==
    ButtonHandler(S, e, "jenis", "jenis_usaha", JENIS_USAHA, "internet", "jenis_handler")

internet_handler(S, e, env) ==
    ButtonHandler(S, e, "internet", "internet", INTERNET_OPTIONS, "kecepatan", "internet_handler")

kecepatan_handler(S, e, env) ==
    ButtonHandler(S, e, "kecepatan", "kecepatan", KECEPATAN_OPTIONS, "biaya", "kecepatan_handler")

biaya_handler(S, e, env) ==
    ButtonHandler(S, e, "biaya", "biaya", BIAYA_OPTIONS, "voc", "biaya_handler")

\* odp_user_state.get(user_id)
OdpWaiting(S, u) == Has(S.os, u) /\ S.os[u]

\* lines 231-242 and 275-286: attach the nearest ODP and tell the user
AttachOdp(S, e, env, lat, lon) ==
    Bind(get_complete_odp_info(env.sheet, lat, lon, env.ties), LAMBDA odp_info :
         IF odp_info # NoDict
         THEN Await([S EXCEPT !.ud[e.user].odp_info = odp_info,
                              !.ud[e.user].sto = odp_info.STO,
                              !.ud[e.user].odp = odp_info.ODP],
                    "set_step_photo", Reply(e, "location_received_odp"))
         ELSE Await(S, "set_step_photo", Reply(e, "location_received_odp_not_detected")))

location_handler(S, e, env) ==
    LET lat == e.geo.lat
        lon == e.geo.long
    IN  IF OdpWaiting(S, e.user)
        THEN Await(S, "odp_search", Reply(e, "odp_searching"))
        ELSE IF ~Has(S.ud, e.user) \/ S.ud[e.user].step # "location" THEN Ret(S)
        ELSE Bind(FloatStr(lat) \o "," \o FloatStr(lon), LAMBDA at :
             Bind([S EXCEPT !.ud[e.user].location = at,
                            !.ud[e.user].link_gmaps = "https://www.google.com/maps?q=" \o at],
                  LAMBDA S1 : AttachOdp(S1, e, env, lat, lon)))

\* a variant of ExtractFailed that moves on to the photo step
ExtractFailedMovesOn(S, e) ==
    Await(SetField(S, e.user, "step", "photo"), "tail", Reply(e, "extract_failed"))

\* lines 292-293: no coordinates; the user is asked to send the location again
ExtractFailed(S, e) == Await(S, "tail", Reply(e, "extract_failed"))

gmaps_handler(S, e, env) ==
    IF OdpWaiting(S, e.user)
    THEN \* `lat, lon = coords_tuple` unpacks the string "lat,lng", which has
         \* more than two characters: ValueError
         IF extract_coords_from_gmaps_link(Strip(e.text), env.net) # None
         THEN Raise(S, "gmaps_handler")
         ELSE Await(S, "tail", Reply(e, "extract_failed"))
    ELSE IF ~Has(S.ud, e.user) \/ S.ud[e.user].step # "location" THEN Ret(S)
    ELSE Bind(SetField(S, e.user, "link_gmaps", e.text), LAMBDA S1 :
         Bind(extract_coords_from_gmaps_link(e.text, env.net), LAMBDA coords :
              IF coords # None
              THEN Bind(SetField(S1, e.user, "location", coords), LAMBDA S2 :
                   Bind(<<SplitLat(coords), SplitLon(coords)>>, LAMBDA parts :
                        IF IsFloat(parts[1]) /\ IsFloat(parts[2])
                        THEN Bind(<<ParseFloat(parts[1]), ParseFloat(parts[2])>>, LAMBDA at :
                                  AttachOdp(S2, e, env, at[1], at[2]))
                        ELSE Await(S2, "set_step_photo",
                                   Reply(e, "location_received_odp_not_detected"))))
              ELSE ExtractFailed(S1, e)))

\* a variant of photo_handler that resets the user's state before it looks
\* for a session
PhotoResetsFirst(S, e, env) ==
    LET S1 == [S EXCEPT !.us = Put(S.us, e.user, "started")]
    IN  IF ~Has(S.ud, e.user) \/ S.ud[e.user].step \notin {"photo", "complete"} THEN Ret(S1)
        ELSE Await(S, "download_media", NoOut)

photo_handler(S, e, env) ==
    IF ~Has(S.ud, e.user) \/ S.ud[e.user].step \notin {"photo", "complete"} THEN Ret(S)
    ELSE Await(S, "download_media", NoOut)

-----------------------------------------------------------------------------
(* handlers.py: the handlers, from an await on.  env.emit tells whether    *)
(* the awaited call returned (TRUE) or raised.                             *)

\* an await that is the handler's last statement
ResumeTail(S, e, env, handler) ==
    IF env.emit THEN Ret(S) ELSE Raise(S, handler)

\* location_handler line 244, gmaps_handler line 291, after the reply
ResumeSetStepPhoto(S, e, env, handler) ==
    IF ~env.emit THEN Raise(S, handler)
    ELSE IF ~Has(S.ud, e.user) THEN Raise(S, handler)
    ELSE Ret(SetField(S, e.user, "step", "photo"))

\* a variant of ResumeOdpSearch that also refreshes the ODP of the user's
\* session from the tab it has just read
OdpSearchRefreshesSession(S, e, env, handler) ==
    IF ~env.emit THEN Raise(S, handler)
    ELSE LET info == get_complete_odp_info(env.sheet, e.geo.lat, e.geo.long, env.ties)
         IN  IF info = NoDict THEN Await(S, "odp_clear", Reply(e, "odp_sheet_failed"))
             ELSE Await(IF Has(S.ud, e.user)
                        THEN [S EXCEPT !.ud[e.user].odp_info = info,
                                       !.ud[e.user].sto = info.STO,
                                       !.ud[e.user].odp = info.ODP]
                        ELSE S,
                        "odp_clear", Reply(e, "odp_results"))

\* process_odp_nearest from line 99 on, after its first reply
ResumeOdpSearch(S, e, env, handler) ==
    IF ~env.emit THEN Raise(S, handler)
    ELSE LET nearest_odp == find_nearest_odp(env.sheet, e.geo.lat, e.geo.long, 5, env.ties)
         IN  IF ~nearest_odp.ok THEN Await(S, "odp_clear", Reply(e, "odp_sheet_failed"))
             ELSE IF nearest_odp.rows = <<>> THEN Await(S, "odp_clear", Reply(e, "odp_data_invalid"))
             ELSE Await(S, "odp_clear", Reply(e, "odp_results"))

\* location_handler line 219, after process_odp_nearest returned
ResumeOdpClear(S, e, env, handler) ==
    IF ~env.emit THEN Raise(S, handler)
    ELSE Ret([S EXCEPT !.os = Put(S.os, e.user, FALSE)])

\* save_to_spreadsheet(data_dict): the call is counted for the object and its
\* argument kept; env.save is what it returns
save_to_spreadsheet(S, d, data_dict) ==
    [S EXCEPT !.sc = Put(S.sc, d.sid, (IF Has(S.sc, d.sid) THEN S.sc[d.sid] ELSE 0) + 1),
              !.ls = data_dict]

\* photo_handler lines 303-324, after event.download_media()
ResumeDownload(S, e, env, handler) ==
    LET \* try: upload and store the link; except Exception: only the local
        \* variable file_link gets the placeholder
        S1 == IF env.download /\ Has(S.ud, e.user)
              THEN SetField(S, e.user, "file_link", env.upload)
              ELSE S
    IN  IF ~Has(S1.ud, e.user) THEN Raise(S1, handler)
        ELSE LET data_dict == to_dict(S1.ud[e.user])
                 S2 == save_to_spreadsheet(S1, S1.ud[e.user], data_dict)
             IN  IF env.save
                 THEN Await(S2, "send_channel", Reply(e, "summary"))
                 ELSE Await(S2, "reset_state", Reply(e, "save_failed"))

\* photo_handler lines 320-322, after the summary reply
ResumeSendChannel(S, e, env, handler) ==
    IF ~env.emit THEN Raise(S, handler)
    ELSE Await(S, "reset_state", [to |-> ChannelTarget, msg |-> "channel_message"])

\* a variant of ResumeResetState that leaves the session in user_data
ResetKeepsSession(S, e, env, handler) ==
    IF ~env.emit THEN Raise(S, handler)
    ELSE Ret([S EXCEPT !.us = Put(S.us, e.user, "started")])

\* photo_handler lines 326-328
ResumeResetState(S, e, env, handler) ==
    IF ~env.emit THEN Raise(S, handler)
    ELSE LET S1 == [S EXCEPT !.us = Put(S.us, e.user, "started")]
         IN  IF Has(S1.ud, e.user) THEN Ret([S1 EXCEPT !.ud = Del(S1.ud, e.user)])
             ELSE Raise(S1, handler)

-----------------------------------------------------------------------------
(* setup_handlers: the handlers in the order client.on registered them,    *)
(* and the filter of each.                                                 *)

Handlers == <<"start_handler", "add_handler", "record_handler", "odp_handler",
              "message_handler", "jenis_handler", "internet_handler",
              "kecepatan_handler", "biaya_handler", "location_handler",
              "gmaps_handler", "photo_handler">>

Filter(h, e) ==
    CASE h = "start_handler" -> e.kind = "message" /\ StartsWith(e.text, "/start")
      [] h = "add_handler" -> e.kind = "message" /\ StartsWith(e.text, "/add")
      [] h = "record_handler" -> e.kind = "message" /\ StartsWith(e.text, "/record")
      [] h = "odp_handler" -> e.kind = "message" /\ StartsWith(e.text, "/odp")
      [] h = "message_handler" -> e.kind = "message"
      [] h = "jenis_handler" -> e.kind = "callback" /\ MatchesButton(e.text, "jenis")
      [] h = "internet_handler" -> e.kind = "callback" /\ MatchesButton(e.text, "internet")
      [] h = "kecepatan_handler" -> e.kind = "callback" /\ MatchesButton(e.text, "kecepatan")
      [] h = "biaya_handler" -> e.kind = "callback" /\ MatchesButton(e.text, "biaya")
      [] h = "location_handler" -> e.kind = "message" /\ e.geo.has
      [] h = "gmaps_handler" -> e.kind = "message" /\ IsMapsLink(e.text)
      [] h = "photo_handler" -> e.kind = "message" /\ e.photo

Call(h, S, e, env) ==
    CASE h = "start_handler" -> start_handler(S, e, env)
      [] h = "add_handler" -> add_handler(S, e, env)
      [] h = "record_handler" -> record_handler(S, e, env)
      [] h = "odp_handler" -> odp_handler(S, e, env)
      [] h = "message_handler" -> message_handler(S, e, env)
      [] h = "jenis_handler" -> jenis_handler(S, e, env)
      [] h = "internet_handler" -> internet_handler(S, e, env)
      [] h = "kecepatan_handler" -> kecepatan_handler(S, e, env)
      [] h = "biaya_handler" -> biaya_handler(S, e, env)
      [] h = "location_handler" -> location_handler(S, e, env)
      [] h = "gmaps_handler" -> gmaps_handler(S, e, env)
      [] h = "photo_handler" -> photo_handler(S, e, env)

Continue(pc, S, e, env, handler) ==
    CASE pc = "tail" -> ResumeTail(S, e, env, handler)
      [] pc = "set_step_photo" -> ResumeSetStepPhoto(S, e, env, handler)
      [] pc = "odp_search" -> ResumeOdpSearch(S, e, env, handler)
      [] pc = "odp_clear" -> ResumeOdpClear(S, e, env, handler)
      [] pc = "download_media" -> ResumeDownload(S, e, env, handler)
      [] pc = "send_channel" -> ResumeSendChannel(S, e, env, handler)
      [] pc = "reset_state" -> ResumeResetState(S, e, env, handler)

-----------------------------------------------------------------------------
(* The environment: the users, what they send, and what the collaborators  *)
(* (credential sheet, ODP sheet, HTTP, storage bucket, record sheet) do.   *)

Users == {"u1"}

\* two users who talk to the bot at the same time
Neighbours == {"u1", "u2"}

\* a user with no row in the "Credentials" tab
Stranger == "u3"

Everyone == Users \cup Neighbours \cup {Stranger}

\* the rows of the "Credentials" tab, by Telegram ID
Registry == [u \in {"u1", "u2"} |->
                IF u = "u1" THEN Credentials("SA01", "Budi", "Bandung", "Cimahi", "C1")
                ELSE Credentials("SA02", "Sari", "Bandung", "Lembang", "C2")]

\* database.get_user_credentials(user_id): the row's dict, or None when there
\* is no row or the sheet could not be read
CredentialResults(u) == {NoDict} \cup (IF u \in DOMAIN Registry THEN {Registry[u]} ELSE {})

Commands == {"/start", "/add", "/record", "/odp", "/help",
             "/loc https://maps.google.com/?q=-6.9,107.6"}
PlainTexts == {"Toko Maju"}
LinkTexts == {"https://maps.google.com/?q=-6.9,107.6", "https://maps.app.goo.gl/abc"}
Captions == {"", "Toko Maju"}
GeoPoints == {Geo(-6200, 106800)}
Buttons == {"jenis_0", "internet_0", "kecepatan_3", "biaya_0"}

OdpSheet == SheetData(<< <<"STO", "ODP", "LATITUDE", "LONGITUDE", "AVAI", "ALAMAT">>,
                         <<"BDG", "ODP-BDG-01", "-6.9", "107.6", "4", "Jl. Braga 1">>,
                         <<"JKT", "ODP-JKT-07", "-6.2", "106.8", "", "Jl. Sudirman 7">> >>)

SheetResults == {SheetUnavailable, OdpSheet}

NetResults == {NetError,
               Response("https://www.google.com/maps/place/Toko/@-6.9,107.6,17z", ""),
               Response("https://consent.google.com/m", "<html></html>")}

\* upload_to_supabase(file_path): the public URL or one of its placeholders
UploadResults == {"https://supabase.example/photo/20250101.jpg",
                  "Foto tersimpan (tanpa upload)"}

\* whether an awaited call (reply, edit, download, channel push) may raise
EmitResults == {TRUE, FALSE}

\* what the collaborators may do during one step of the dispatch of e, which
\* starts at pc ("arrive" for a new event): only the calls the step can reach
\* are given a choice
\* the point a location message asks about with the answer `net` of
\* requests.get: <<TRUE, lat, lon>>, or <<FALSE, 0, 0>> when it gives none
AskedPoint(e, net) ==
    IF e.geo.has THEN <<TRUE, e.geo.lat, e.geo.long>>
    ELSE Bind(extract_coords_from_gmaps_link(e.text, net), LAMBDA c :
              IF c # None /\ IsFloat(SplitLat(c)) /\ IsFloat(SplitLon(c))
              THEN <<TRUE, ParseFloat(SplitLat(c)), ParseFloat(SplitLon(c))>>
              ELSE <<FALSE, 0, 0>>)

\* the sort of the tab by the distance from (lat, lon) meets equal keys
EqualKeys(data, lat, lon) ==
    Bind(find_nearest_odp(data, lat, lon, Len(data.rows), "kept"), LAMBDA r :
         r.ok /\ \E i \in 1..(Len(r.rows) - 1) :
                    r.rows[i].DISTANCE_KM = r.rows[i + 1].DISTANCE_KM)

Envs(e, pc) ==
    LET calls ==
    [creds : IF pc = "arrive" /\ (StartsWith(e.text, "/start") \/ StartsWith(e.text, "/add"))
             THEN CredentialResults(e.user) ELSE {NoDict},
     records : IF pc = "arrive" /\ StartsWith(e.text, "/record") THEN {0, 1} ELSE {0},
     net : IF e.kind = "message" /\ IsMapsLink(e.text) /\ IssuesGet(e.text)
           THEN NetResults ELSE {NetError},
     sheet : IF e.geo.has \/ (e.kind = "message" /\ IsMapsLink(e.text))
             THEN SheetResults ELSE {SheetUnavailable},
     ties : IF e.geo.has \/ (e.kind = "message" /\ IsMapsLink(e.text))
            THEN TieOrders ELSE {"kept"},
     download : IF pc = "download_media" THEN BOOLEAN ELSE {TRUE},
     upload : IF pc = "download_media" THEN UploadResults ELSE {None},
     save : IF pc = "download_media" THEN BOOLEAN ELSE {FALSE},
     emit : IF pc \in {"arrive", "download_media"} THEN {TRUE} ELSE EmitResults]
    \* the sort has an order to choose only where it meets equal keys
    IN  {env \in calls :
             env.ties = "kept" \/ Bind(AskedPoint(e, env.net), LAMBDA p :
                                        p[1] /\ EqualKeys(env.sheet, p[2], p[3]))}

-----------------------------------------------------------------------------
(* The specification.                                                      *)

\* a user who registers, starts a session and answers every prompt in turn
Script(u) ==
    <<Message(u, "/start", NoGeo, FALSE),
      Message(u, "/add", NoGeo, FALSE),
      Message(u, "Toko Maju", NoGeo, FALSE),
      Message(u, "Budi", NoGeo, FALSE),
      Message(u, "Pemilik", NoGeo, FALSE),
      Message(u, "08123456789", NoGeo, FALSE),
      Callback(u, "jenis_0"),
      Callback(u, "internet_0"),
      Callback(u, "kecepatan_3"),
      Callback(u, "biaya_0"),
      Message(u, "Baik", NoGeo, FALSE),
      Message(u, "https://maps.google.com/maps/@-6.2,106.816,17z", NoGeo, FALSE),
      Message(u, "", NoGeo, TRUE)>>

\* every update of the model
Inputs ==
    UNION {{Message(u, text, NoGeo, FALSE) : text \in Commands \cup PlainTexts \cup LinkTexts}
           \cup {Message(u, "", geo, FALSE) : geo \in GeoPoints}
           \cup {Message(u, text, NoGeo, TRUE) : text \in Captions}
           \cup {Callback(u, data) : data \in Buttons}
           \cup {Script(u)[n] : n \in 1..Len(Script(u))} : u \in Everyone}

\* the handlers (by position) whose filter matches each update, and the
\* choices of the collaborators at each point of its dispatch: both are
\* fixed by the update, and tabulated once
\* the link location_handler builds for each live location of the model
\* (line 229), sent back as a text
Echoes ==
    {Message(u, "https://www.google.com/maps?q=" \o FloatStr(geo.lat) \o "," \o FloatStr(geo.long),
             NoGeo, FALSE) : u \in Everyone, geo \in GeoPoints}

Matching == [e \in Inputs \cup Echoes |-> Listed({i \in 1..Len(Handlers) : Filter(Handlers[i], e)})]

Awaits == {"arrive", "tail", "set_step_photo", "odp_search", "odp_clear",
           "download_media", "send_channel", "reset_state"}

EnvsAt == [e \in Inputs |-> [pc \in Awaits |-> Listed(Envs(e, pc))]]

\* whether a handler after the i-th matches e
MoreHandlers(e, i) == \E j \in (i + 1)..Len(Handlers) : j \in Matching[e]

\* where the dispatch of e stands when its i-th handler stopped as r: at the
\* await it named, or at its end when the await is the handler's last
\* statement and no later handler matches (nothing of the dispatch is left
\* to run, whatever the awaited call does)
Stand(r, e, i) ==
    [S |-> r.S, h |-> i, out |-> r.out,
     pc |-> IF r.pc = "tail" /\ ~MoreHandlers(e, i) THEN "done" ELSE r.pc]

\* the dispatch of event e from the i-th handler on, up to the next await:
\* [S, h, pc, out], pc = "done" when nothing is left to run
RECURSIVE RunFrom(_, _, _, _)
RunFrom(S, e, i, env) ==
    IF i > Len(Handlers) THEN [S |-> S, h |-> 0, pc |-> "done", out |-> NoOut]
    ELSE IF i \notin Matching[e] THEN RunFrom(S, e, i + 1, env)
    ELSE Bind(Call(Handlers[i], S, e, env),
              LAMBDA r : IF r.pc = "next" THEN RunFrom(r.S, e, i + 1, env)
                         ELSE Stand(r, e, i))

\* the dispatch of a suspended task t from its await on, up to the next one
RunOn(S, t, env) ==
    Bind(Continue(t.pc, S, t.e, env, Handlers[t.h]),
         LAMBDA r : IF r.pc = "next" THEN RunFrom(r.S, t.e, t.h + 1, env)
                    ELSE Stand(r, t.e, t.h))

\* the program state at the start of a step
Now == [ud |-> user_data, us |-> user_state, os |-> odp_user_state,
        sc |-> save_calls, ls |-> NoDict, ns |-> nsid, ex |-> {}]

Task(e, r) == [e |-> e, h |-> r.h, pc |-> r.pc]

\* the state after a step that ended as r, old being the task that ran
\* (none for a new event)
Commit(r, e, old) ==
    /\ user_data' = r.S.ud
    /\ user_state' = r.S.us
    /\ odp_user_state' = r.S.os
    /\ save_calls' = r.S.sc
    /\ last_saved' = r.S.ls
    /\ nsid' = r.S.ns
    /\ raised' = r.S.ex
    /\ out' = r.out
    /\ UNCHANGED probe
    /\ LET rest == tasks (-) old
       IN  IF r.pc = "done" THEN tasks' = rest
           ELSE tasks' = rest (+) SetToBag({Task(e, r)})

\* the dispatch of a new update e runs up to its first await
Dispatch(e, env) ==
    /\ received' = received + 1
    /\ \E S \in {Now} : \E r \in {RunFrom(S, e, 1, env)} : Commit(r, e, EmptyBag)

\* a new update arrives
Arrive(e, env) == received < MaxEvents /\ Dispatch(e, env)

\* the awaited call of task t completes and its dispatch runs on
Resume(t, env) ==
    /\ UNCHANGED received
    /\ \E S \in {Now} : \E r \in {RunOn(S, t, env)} : Commit(r, t.e, SetToBag({t}))

\* what the collaborators do when all goes well
GoodEnv(u) ==
    [creds |-> Registry[u], records |-> 0, net |-> NetError, sheet |-> OdpSheet, ties |-> "kept",
     download |-> TRUE, upload |-> "https://supabase.example/photo/20250101.jpg",
     save |-> TRUE, emit |-> TRUE]

\* the dispatch of e run to its end with no other dispatch in between:
\* r is where it stands, env what the collaborators do
RECURSIVE Finish(_, _, _)
Finish(r, e, env) ==
    IF r.pc = "done" THEN r.S
    ELSE Bind(RunOn([r.S EXCEPT !.ls = NoDict, !.ex = {}], Task(e, r), env),
              LAMBDA q : Finish(q, e, env))

Handle(S, e, env) == Bind(RunFrom(S, e, 1, env), LAMBDA r : Finish(r, e, env))

Empty == [ud |-> <<>>, us |-> <<>>, os |-> <<>>, sc |-> <<>>, ls |-> NoDict, ns |-> 0, ex |-> {}]

\* the program state after the first n events of the script
RECURSIVE AfterScript(_, _)
AfterScript(u, n) ==
    IF n = 0 THEN Empty
    ELSE Bind(AfterScript(u, n - 1), LAMBDA before : Handle(before, Script(u)[n], GoodEnv(u)))

\* the program in state S, with no dispatch in flight
InitAt(S) ==
    /\ user_data = S.ud
    /\ user_state = S.us
    /\ odp_user_state = S.os
    /\ tasks = EmptyBag
    /\ save_calls = S.sc
    /\ last_saved = NoDict
    /\ out = NoOut
    /\ raised = {}
    /\ nsid = S.ns
    /\ received = 0
    /\ probe = NoDict

\* The program right after construction, or after any number of events of
\* the script short of the last: the sessions of a behaviour are explored
\* from every step of the form.
Init == \E u \in Users : \E n \in 0..(Len(Script(u)) - 1) : \E S \in {AfterScript(u, n)} : InitAt(S)

Receive(e) == \E env \in EnvsAt[e]["arrive"] : Arrive(e, env)

SendCommand == \E u \in Users, text \in Commands : Receive(Message(u, text, NoGeo, FALSE))

SendText == \E u \in Users, text \in PlainTexts : Receive(Message(u, text, NoGeo, FALSE))

SendLink == \E u \in Users, text \in LinkTexts : Receive(Message(u, text, NoGeo, FALSE))

ShareLocation == \E u \in Users, geo \in GeoPoints : Receive(Message(u, "", geo, FALSE))

SendPhoto == \E u \in Users, text \in Captions : Receive(Message(u, text, NoGeo, TRUE))

PressButton == \E u \in Users, data \in Buttons : Receive(Callback(u, data))

ResumeAt(pc) ==
    \E t \in BagToSet(tasks) : t.pc = pc /\ \E env \in EnvsAt[t.e][pc] : Resume(t, env)

ReplyReturns == ResumeAt("tail")

LocationReplyReturns == ResumeAt("set_step_photo")

OdpSearchRuns == ResumeAt("odp_search")

OdpReplyReturns == ResumeAt("odp_clear")

DownloadReturns == ResumeAt("download_media")

SummaryReplyReturns == ResumeAt("send_channel")

FinalReplyReturns == ResumeAt("reset_state")

Next ==
    \/ SendCommand
    \/ SendText
    \/ SendLink
    \/ ShareLocation
    \/ SendPhoto
    \/ PressButton
    \/ ReplyReturns
    \/ LocationReplyReturns
    \/ OdpSearchRuns
    \/ OdpReplyReturns
    \/ DownloadReturns
    \/ SummaryReplyReturns
    \/ FinalReplyReturns

Spec == Init /\ [][Next]_vars

-----------------------------------------------------------------------------
(* The scripted user: registered, answers each prompt in turn with an      *)
(* input of the type the step asks for, and waits for the bot before the   *)
(* next one.  Every awaited call returns; the sheets, the storage bucket   *)
(* and the download do what they may.                                      *)

\* the inputs of the type of the n-th event of the script
ScriptChoices(u, n) ==
    LET e == Script(u)[n]
    IN  IF e.photo THEN {Message(u, text, NoGeo, TRUE) : text \in Captions}
        ELSE IF e.kind = "message" /\ ~StartsWith(e.text, "/") /\ ~IsMapsLink(e.text)
             THEN {e} \cup {Message(u, text, NoGeo, FALSE) : text \in PlainTexts}
             ELSE {e}

ScriptEnvs(e, pc) ==
    {env \in EnvsAt[e][pc] :
         /\ env.emit
         /\ (pc = "arrive" /\ e.text \in {"/start", "/add"}) => env.creds # NoDict}

ScriptStep ==
    \E u \in Users :
        /\ tasks = EmptyBag
        /\ received < Len(Script(u))
        /\ \E e \in ScriptChoices(u, received + 1) : \E env \in ScriptEnvs(e, "arrive") :
               Dispatch(e, env)

ScriptResume ==
    \E t \in BagToSet(tasks) : \E env \in ScriptEnvs(t.e, t.pc) : Resume(t, env)

InitScript == InitAt(Empty)

NextScript == ScriptStep \/ ScriptResume

SpecScript == InitScript /\ [][NextScript]_vars

-----------------------------------------------------------------------------
(* The sessions of a behaviour.                                            *)

\* u has a session before and after the step, and it is the same object
SameSession(u) ==
    /\ Has(user_data, u)
    /\ Has(user_data', u)
    /\ user_data'[u].sid = user_data[u].sid

\* the session of u is the same object in S as now
SameSessionIn(S, u) ==
    /\ Has(user_data, u)
    /\ Has(S.ud, u)
    /\ S.ud[u].sid = user_data[u].sid

\* the collected fields whose value differs between the sessions d1 and d2
Written(d1, d2) == {f \in CollectedFields : d1[f] # d2[f]}

\* the updates user u can send
EventsOf(u) == {e \in Inputs : e.user = u}

\* the messages gmaps_handler takes, and those a location can come with
LinkEvents == Listed({e \in Inputs : e.kind = "message" /\ IsMapsLink(e.text)})
LocationEvents == LinkEvents \cup Listed({e \in Inputs : e.kind = "message" /\ e.geo.has})

\* the links, with what requests.get does, from which
\* extract_coords_from_gmaps_link gets no coordinates
FailedLinks ==
    Listed({p \in LinkEvents \X NetResults :
                extract_coords_from_gmaps_link(p[1].text, p[2]) = None})

\* the location messages, with what requests.get does, that give coordinates
Located == Listed((LocationEvents \X NetResults) \ FailedLinks)

\* the sheets on which find_nearest_odp returns None
Unsearchable == Listed({data \in SheetResults : ~find_nearest_odp(data, 0, 0, 1, "kept").ok})

\* the session of u stands at step location and no ODP search is pending
AtLocationStep(u) ==
    /\ Has(user_data, u)
    /\ user_data[u].step = "location"
    /\ ~OdpWaiting(Now, u)

\* the choice step each button prefix belongs to
ChoiceStep(data) ==
    CASE MatchesButton(data, "jenis") -> "jenis_usaha"
      [] MatchesButton(data, "internet") -> "internet"
      [] MatchesButton(data, "kecepatan") -> "kecepatan"
      [] MatchesButton(data, "biaya") -> "biaya"

\* the awaits inside a handler that has read the session of its user and
\* writes user_data or user_state again once the awaited call returns
MidSession == {"set_step_photo", "download_media", "send_channel", "reset_state"}

-----------------------------------------------------------------------------
(* Claims.                                                                 *)

\* C1: in every step of every behaviour the step of a session stays where it
\* is or moves to the next value of the form order; it never moves to an
\* earlier value and never skips one.
C1_StepFollowsOrder ==
    [][\A u \in Users :
          SameSession(u) =>
              StepIndex(user_data'[u].step) \in
                  {StepIndex(user_data[u].step), StepIndex(user_data[u].step) + 1}]_vars

\* C2: one message, dispatched to every handler that matches it (in
\* registration order, with no other dispatch in between), advances the step
\* of the session by at most one position and writes at most one collected
\* field, at every step and for every message.
C2_OneEventOneStep ==
    \A u \in Users : \A e \in EventsOf(u) : \A env \in EnvsAt[e]["arrive"] :
        \A S \in {Handle(Now, e, env)} :
            (e.kind = "message" /\ SameSessionIn(S, u)) =>
                /\ StepIndex(S.ud[u].step) <= StepIndex(user_data[u].step) + 1
                /\ Cardinality(Written(user_data[u], S.ud[u])) <= 1

\* C3: while the step of a session is a text step, a live-location message
\* or a photo message (with or without caption) leaves the step and every
\* collected field as they are.
C3_MediaIgnoredAtTextSteps ==
    [][\A u \in Users : \A e \in EventsOf(u) : \A env \in EnvsAt[e]["arrive"] :
          (/\ e.kind = "message"
           /\ e.geo.has \/ e.photo
           /\ Has(user_data, u)
           /\ user_data[u].step \in TextSteps
           /\ Arrive(e, env))
          => /\ SameSession(u)
             /\ user_data'[u].step = user_data[u].step
             /\ Written(user_data[u], user_data'[u]) = {}]_vars

\* C4: a button callback received while the step of the session is not the
\* choice step of that button leaves the step and every collected field as
\* they are.
C4_ButtonOnlyAtItsStep ==
    [][\A u \in Users : \A e \in EventsOf(u) : \A env \in EnvsAt[e]["arrive"] :
          (/\ e.kind = "callback"
           /\ Has(user_data, u)
           /\ user_data[u].step # ChoiceStep(e.text)
           /\ Arrive(e, env))
          => /\ SameSession(u)
             /\ user_data'[u].step = user_data[u].step
             /\ Written(user_data[u], user_data'[u]) = {}]_vars

\* C6: save_to_spreadsheet is called at most once for a session, whatever
\* the interleaving of the updates of its user.
C6_SavedAtMostOnce == \A sid \in DOMAIN save_calls : save_calls[sid] <= 1

\* C7: no two dispatches for one user are at the same time inside handlers
\* that have read the session of the user and have yet to write it.
C7_OneHandlerAtATime ==
    \A t1 \in BagToSet(tasks) : \A t2 \in BagToSet(tasks) :
        (t1.e.user = t2.e.user /\ t1.pc \in MidSession /\ t2.pc \in MidSession)
        => t1 = t2 /\ CopiesIn(t1, tasks) = 1

\* the /add command of user u
AddCommand(u) == Message(u, "/add", NoGeo, FALSE)

\* the dispatch of e stands at the await pc after the step, and did not before
Suspends(e, h, pc) ==
    LET t == [e |-> e, h |-> h, pc |-> pc]
    IN  CopiesIn(t, tasks') = CopiesIn(t, tasks) + 1

\* C5: once photo_handler has gone through a photo of a session (its awaited
\* calls returning), the user has no entry in user_data and user_state is
\* 'started', whether save_to_spreadsheet returned True or False: after the
\* download the record is saved and the handler goes on to its replies, after
\* the replies it resets the state; an /add that follows creates a fresh
\* session at step nama_usaha.
C5_PhotoEndsSession ==
    [][/\ \A t \in BagToSet(tasks) : \A env \in EnvsAt[t.e][t.pc] :
            /\ (t.pc = "download_media" /\ Has(user_data, t.e.user) /\ Resume(t, env))
               => /\ Has(save_calls', user_data[t.e.user].sid)
                  /\ last_saved' # NoDict
                  /\ Suspends(t.e, t.h, IF env.save THEN "send_channel" ELSE "reset_state")
            /\ (t.pc = "send_channel" /\ env.emit /\ Resume(t, env))
               => Suspends(t.e, t.h, "reset_state")
            /\ (t.pc = "reset_state" /\ env.emit /\ Resume(t, env))
               => /\ ~Has(user_data', t.e.user)
                  /\ user_state'[t.e.user] = "started"
       /\ \A u \in Users : \A env \in EnvsAt[AddCommand(u)]["arrive"] :
            (/\ ~Has(user_data, u)
             /\ Has(user_state, u)
             /\ user_state[u] = "started"
             /\ env.creds # NoDict
             /\ Arrive(AddCommand(u), env))
            => /\ Has(user_data', u)
               /\ user_data'[u].sid \notin DOMAIN save_calls
               /\ user_data'[u].step = "nama_usaha"
               /\ \A f \in CollectedFields : user_data'[u][f] = None]_vars

\* C5 happens: a session was saved and taken away, and an /add that followed
\* created a new one, which stands at step nama_usaha
C5_Reached ==
    \E u \in Users :
        /\ Has(user_data, u)
        /\ user_data[u].step = "nama_usaha"
        /\ user_state[u] = "adding"
        /\ \E sid \in DOMAIN save_calls : sid < user_data[u].sid

\* C9: a map link received at step location from which no coordinates are
\* extracted leaves the step at location and the location field as it was,
\* the user is asked again, and the dispatch ends there: nothing of it is
\* left that could resolve the link again.
C9_FailedLinkStaysAtLocation ==
    [][\A u \in Users :
          AtLocationStep(u) =>
              \A e \in LinkEvents : \A env \in EnvsAt[e]["arrive"] :
                  (/\ e.user = u
                   /\ <<e, env.net>> \in FailedLinks
                   /\ Arrive(e, env))
                  => /\ SameSession(u)
                     /\ user_data'[u].step = "location"
                     /\ user_data'[u].location = user_data[u].location
                     /\ out' = Reply(e, "extract_failed")
                     /\ tasks' = tasks]_vars

\* C9 happens: the user of a session at step location with no location yet
\* has just been told that the link gave no coordinates
C9_Reached ==
    \E u \in Users :
        /\ Has(user_data, u)
        /\ user_data[u].step = "location"
        /\ user_data[u].location = None
        /\ user_data[u].link_gmaps # None
        /\ ~OdpWaiting(Now, u)
        /\ out = [to |-> u, msg |-> "extract_failed"]

\* the coordinates handlers.py obtains from a location message
CoordsText(e, env) ==
    IF e.geo.has THEN FloatStr(e.geo.lat) \o "," \o FloatStr(e.geo.long)
    ELSE extract_coords_from_gmaps_link(e.text, env.net)

\* C10: a location (live or link) received at step location whose
\* coordinates are obtained while find_nearest_odp returns None is recorded,
\* odp_info, sto and odp are left as they were, the user is told that no ODP
\* was detected, and when that reply has returned step becomes photo.
C10_NoOdpStillAdvances ==
    [][/\ \A u \in Users :
            AtLocationStep(u) =>
                \A e \in LocationEvents : \A env \in EnvsAt[e]["arrive"] :
                    (/\ e.user = u
                     /\ <<e, env.net>> \in Located
                     /\ env.sheet \in Unsearchable
                     /\ Arrive(e, env))
                    => /\ SameSession(u)
                       /\ user_data'[u].location = CoordsText(e, env)
                       /\ user_data'[u].odp_info = user_data[u].odp_info
                       /\ user_data'[u].sto = user_data[u].sto
                       /\ user_data'[u].odp = user_data[u].odp
                       /\ out' = Reply(e, "location_received_odp_not_detected")
                       /\ \E h \in 1..Len(Handlers) : Suspends(e, h, "set_step_photo")
       /\ \A t \in BagToSet(tasks) : \A env \in EnvsAt[t.e][t.pc] :
            (/\ t.pc = "set_step_photo"
             /\ env.emit
             /\ Has(user_data, t.e.user)
             /\ Resume(t, env))
            => /\ SameSession(t.e.user)
               /\ user_data'[t.e.user].step = "photo"
               /\ user_data'[t.e.user].odp_info = user_data[t.e.user].odp_info
               /\ Written(user_data[t.e.user], user_data'[t.e.user]) = {}]_vars

\* C10 happens: a session has reached step photo with its location recorded
\* and no ODP attached
C10_Reached ==
    \E u \in Users :
        /\ Has(user_data, u)
        /\ user_data[u].step = "photo"
        /\ user_data[u].location # None
        /\ user_data[u].odp_info = NoDict
        /\ user_data[u].sto = None
        /\ user_data[u].odp = None

\* the ODP info is that of a row of the sheet `data`, and no row of the sheet
\* is nearer to (lat, lon)
IsNearest(data, lat, lon, info) ==
    LET header == data.rows[1]
        lat_of(r) == ParseFloat(data.rows[r][ColumnOf(header, "LATITUDE")])
        lon_of(r) == ParseFloat(data.rows[r][ColumnOf(header, "LONGITUDE")])
        rows == 2..Len(data.rows)
    IN  \E r \in rows :
            /\ info.STO = data.rows[r][ColumnOf(header, "STO")]
            /\ info.ODP = data.rows[r][ColumnOf(header, "ODP")]
            /\ \A q \in rows :
                   Distance(lat, lon, lat_of(r), lon_of(r)) <= Distance(lat, lon, lat_of(q), lon_of(q))

\* C8, in every state of the scripted user's behaviours: no session is saved
\* twice; the record of a save has the ten collected fields populated and
\* carries the ODP attached to the session; when the script is through, there
\* has been exactly one save call and the user has no entry in user_data
C8_AtSave ==
    /\ \A sid \in DOMAIN save_calls : save_calls[sid] = 1
    /\ last_saved # NoDict =>
           /\ \A f \in CollectedFields : last_saved[f] \notin {None, ""}
           /\ \A u \in Users :
                  (Has(user_data, u) /\ user_data[u].odp_info # NoDict) =>
                      /\ last_saved.sto = user_data[u].odp_info.STO
                      /\ last_saved.odp = user_data[u].odp_info.ODP
                      /\ last_saved.odp_sto = user_data[u].odp_info.STO
                      /\ last_saved.odp_odp = user_data[u].odp_info.ODP
    /\ \A u \in Users :
           (received = Len(Script(u)) /\ tasks = EmptyBag) =>
               /\ DOMAIN save_calls = {1}
               /\ ~Has(user_data, u)

\* C8, in every step of the scripted user's behaviours: the link sent at
\* step location, when the ODP sheet can be loaded and searched, attaches the
\* nearest ODP of the sheet to the session
C8_AtLocation ==
    \A u \in Users : \A e \in LinkEvents : \A env \in ScriptEnvs(e, "arrive") :
        (/\ e.user = u
         /\ AtLocationStep(u)
         /\ env.sheet \notin Unsearchable
         /\ Dispatch(e, env))
        => /\ SameSession(u)
           /\ user_data'[u].location = SearchAt(e.text)
           /\ user_data'[u].odp_info # NoDict
           /\ IsNearest(env.sheet, ParseFloat(SplitLat(SearchAt(e.text))),
                         ParseFloat(SplitLon(SearchAt(e.text))), user_data'[u].odp_info)

\* C8: a registered user who sends /start, /add and then one input of the
\* right type per step, in order, causes exactly one save_to_spreadsheet call;
\* its record has the ten collected fields populated and, when the ODP sheet
\* is loadable, the nearest ODP attached; afterwards the user has no entry in
\* user_data.
C8_ScriptSavesOnce == []C8_AtSave /\ [][C8_AtLocation]_vars

\* C8 happens: the script is through, the one session was saved once and is gone
C8_Reached ==
    \E u \in Users :
        /\ received = Len(Script(u))
        /\ tasks = EmptyBag
        /\ Has(save_calls, 1)
        /\ save_calls[1] = 1
        /\ ~Has(user_data, u)
        /\ user_state[u] = "started"

-----------------------------------------------------------------------------
(* The /odp lookup.                                                        *)

\* what the collaborators do when all goes well, the link resolving as net
\* and the ODP tab read as sheet
LookupEnv(u, net, sheet) == [GoodEnv(u) EXCEPT !.net = net, !.sheet = sheet]

\* the handler that takes the location message e, run up to its first await
LocationTaker(S, e, env) ==
    IF e.geo.has THEN location_handler(S, e, env) ELSE gmaps_handler(S, e, env)

\* C11: while the ODP-waiting flag of a user is set, every location input of
\* that user that yields coordinates (a live location, or a map link from
\* which coordinates are extracted) makes its handler start the nearest
\* search of process_odp_nearest, and once the dispatch of the message is
\* through the flag is cleared.
C11_OdpLookupClearsFlag ==
    \A u \in Users :
        OdpWaiting(Now, u) =>
            \A p \in Located : \A sheet \in SheetResults :
                p[1].user = u =>
                    /\ LocationTaker(Now, p[1], LookupEnv(u, p[2], sheet)).pc = "odp_search"
                    /\ ~OdpWaiting(Handle(Now, p[1], LookupEnv(u, p[2], sheet)), u)

\* C12: while the ODP-waiting flag of a user is set, a location input of that
\* user (live location or map link), dispatched to every handler that matches
\* it, leaves the session of the user as it was: the same step and the same
\* collected fields, whatever the step.
C12_OdpLookupKeepsSession ==
    \A u \in Users :
        (OdpWaiting(Now, u) /\ Has(user_data, u)) =>
            \A e \in LocationEvents : \A env \in EnvsAt[e]["arrive"] :
                e.user = u =>
                    \A S \in {Handle(Now, e, env)} :
                        /\ SameSessionIn(S, u)
                        /\ S.ud[u].step = user_data[u].step
                        /\ Written(user_data[u], S.ud[u]) = {}

-----------------------------------------------------------------------------
(* Commands during a session.                                              *)

\* C15: while user_state is 'adding', a message whose text starts with '/'
\* and is not /start leaves the step and every collected field of the
\* session as they are, and no field of the session holds its text afterwards.
C15_CommandsLeaveSession ==
    [][\A u \in Users : \A e \in EventsOf(u) : \A env \in EnvsAt[e]["arrive"] :
          (/\ e.kind = "message"
           /\ StartsWith(e.text, "/")
           /\ ~StartsWith(e.text, "/start")
           /\ Has(user_state, u)
           /\ user_state[u] = "adding"
           /\ Has(user_data, u)
           /\ Arrive(e, env))
          => /\ SameSession(u)
             /\ user_data'[u].step = user_data[u].step
             /\ Written(user_data[u], user_data'[u]) = {}
             /\ \A f \in CollectedFields \cup {"link_gmaps"} : user_data'[u][f] # e.text]_vars

-----------------------------------------------------------------------------
(* Two users at once: both are registered and fill the form side by side;  *)
(* each sends what it likes, and the dispatches of both interleave.        *)

\* the program state after user u sent the first n events of the script to
\* the program in state S
RECURSIVE ScriptOn(_, _, _)
ScriptOn(S, u, n) ==
    IF n = 0 THEN S
    ELSE Bind(ScriptOn(S, u, n - 1), LAMBDA before : Handle(before, Script(u)[n], GoodEnv(u)))

\* the program state after each of the neighbours sent the first n events of
\* the script
AfterBoth(n) == Bind(AfterScript("u1", n), LAMBDA S1 : ScriptOn(S1, "u2", n))

InitPair == \E n \in 0..(Len(Script("u1")) - 1) : \E S \in {AfterBoth(n)} : InitAt(S)

NeighbourSends == \E u \in Neighbours : \E e \in EventsOf(u) : Receive(e)

HandlerResumes == \E pc \in Awaits \ {"arrive"} : ResumeAt(pc)

NextPair == NeighbourSends \/ HandlerResumes

SpecPair == InitPair /\ [][NextPair]_vars

\* the entry of key k in the dict d, if any
EntryOf(d, k) == IF Has(d, k) THEN <<d[k]>> ELSE <<>>

\* the entries of user b in the three dicts are in S as they are now
Untouched(S, b) ==
    /\ EntryOf(S.ud, b) = EntryOf(user_data, b)
    /\ EntryOf(S.us, b) = EntryOf(user_state, b)
    /\ EntryOf(S.os, b) = EntryOf(odp_user_state, b)

\* C13: in every state of every interleaving of the dispatches of two users,
\* each step a dispatch for one user can take next, be it the arrival of an
\* update of that user or the resumption of one of its handlers after an
\* await, leaves user_data[b], user_state[b] and odp_user_state[b] as they
\* are for the other user b.
C13_OtherUsersUntouched ==
    /\ received < MaxEvents =>
           \A u \in Neighbours : \A e \in EventsOf(u) : \A env \in EnvsAt[e]["arrive"] :
               \A r \in {RunFrom(Now, e, 1, env)} :
                   \A b \in Neighbours \ {u} : Untouched(r.S, b)
    /\ \A t \in BagToSet(tasks) : \A env \in EnvsAt[t.e][t.pc] :
           \A r \in {RunOn(Now, t, env)} :
               \A b \in Neighbours \ {t.e.user} : Untouched(r.S, b)

\* C13 happens: both users have a session, and a handler of each is
\* suspended between reading and writing the session of its user
C13_Reached ==
    /\ \A u \in Neighbours : Has(user_data, u)
    /\ \A u \in Neighbours : \E t \in BagToSet(tasks) : t.e.user = u /\ t.pc \in MidSession

-----------------------------------------------------------------------------
(* A registered user and a stranger, from the start of the program.        *)

Visitors == {"u1", Stranger}

VisitorSends == \E u \in Visitors : \E e \in EventsOf(u) : Receive(e)

InitGuest == InitAt(Empty)

NextGuest == VisitorSends \/ HandlerResumes

SpecGuest == InitGuest /\ [][NextGuest]_vars

\* the step gives user u a session it did not have
Created(u) ==
    /\ Has(user_data', u)
    /\ Has(user_data, u) => user_data'[u].sid # user_data[u].sid

\* the step is the arrival of an /add of user u whose credential lookup
\* returns a profile
AddWithProfile(u) ==
    \E e \in EventsOf(u) : \E env \in EnvsAt[e]["arrive"] :
        /\ StartsWith(e.text, "/add")
        /\ env.creds # NoDict
        /\ Arrive(e, env)

\* C14: a step that gives a user an entry in user_data is the arrival of an
\* /add of that user, received while user_state of the user is 'started',
\* whose credential lookup returns a profile; and the user with no row in the
\* credential sheet has no entry in user_data in any reachable state.
C14_SessionNeedsProfile ==
    /\ [](~Has(user_data, Stranger))
    /\ [][\A u \in Visitors :
             Created(u) => /\ Has(user_state, u)
                           /\ user_state[u] = "started"
                           /\ AddWithProfile(u)]_vars

\* C14 happens: the program has opened its first session, for a user who
\* sent /start and /add and has a profile
C14_Reached ==
    \E u \in Visitors :
        /\ Has(user_data, u)
        /\ user_data[u].nama_sa = Registry[u].nama_sa
        /\ nsid = 1
        /\ received = 2

-----------------------------------------------------------------------------
(* extract_coords_from_gmaps_link called on its own, on every link of      *)
(* ProbeLinks with every outcome of requests.get of ProbeNets.             *)

\* the variables of the bot, which a library call leaves alone
botvars == <<user_data, user_state, odp_user_state, tasks, save_calls, last_saved, out,
             raised, nsid, received>>

\* the bot as constructed, with no update received
BotIdle ==
    /\ user_data = <<>>
    /\ user_state = <<>>
    /\ odp_user_state = <<>>
    /\ tasks = EmptyBag
    /\ save_calls = <<>>
    /\ last_saved = NoDict
    /\ out = NoOut
    /\ raised = {}
    /\ nsid = 0
    /\ received = 0

ProbeLinks ==
    LinkTexts \cup
    {"", "  ",
     "https://maps.google.com/maps/@-6.2,106.816,17z",
     "https://maps.google.com/@-6.2,106.8?q=-6.9,107.6",
     "https://maps.google.com/?q=-6.9,107.6&c=@-6.2,106.8",
     "https://maps.google.com/?daddr=-6.5,107.1",
     "https://goo.gl/maps/q=-6.9,107.6"}

ProbeNets ==
    NetResults \cup
    {Response("https://www.google.com/maps?q=-7.1,110.4", "<html>-1.5,2.5</html>"),
     Response("https://www.google.com/maps?q=-7.1,110.4&c=@-7.3,110.2", ""),
     Response("https://www.google.com/maps/place/Toko", "<html>[null,-7.25,112.75]</html>"),
     Response("https://www.google.com/sorry", "")}

InitExtract ==
    /\ BotIdle
    /\ \E link \in ProbeLinks : \E net \in ProbeNets :
           probe = [link |-> link, net |-> net, returned |-> FALSE,
                    coords |-> None, gets |-> 0, raised |-> FALSE]

\* the call runs: it returns, or an exception leaves it
CallExtract ==
    /\ ~probe.returned
    /\ \E r \in {Extract(probe.link, probe.net)} :
           probe' = [probe EXCEPT !.returned = TRUE, !.coords = r.coords,
                                  !.gets = r.gets, !.raised = r.raised]
    /\ UNCHANGED botvars

NextExtract == CallExtract

SpecExtract == InitExtract /\ [][NextExtract]_vars

\* C16: the value returned is the first match of the fixed order: the
\* '@lat,lon' pair of the input when the input has one, also when it has a
\* 'q=lat,lon' pair as well, wherever the two stand; else the 'q=lat,lon'
\* pair of the input when it has one; both whatever the network would give.
C16_FirstStrategyWins ==
    probe.returned =>
        /\ SearchAt(probe.link) # None => probe.coords = SearchAt(probe.link)
        /\ (SearchAt(probe.link) = None /\ SearchQ(probe.link) # None)
               => probe.coords = SearchQ(probe.link)

\* C16 happens: the input has a 'q=' pair and, after it, an '@' pair, the
\* network would give a third pair, and the '@' pair was returned
C16_Reached ==
    /\ probe.returned
    /\ probe.link = "https://maps.google.com/?q=-6.9,107.6&c=@-6.2,106.8"
    /\ ~probe.net.raised
    /\ SearchQ(probe.net.url) = "-7.1,110.4"
    /\ probe.coords = "-6.2,106.8"

\* C17: requests.get is called exactly when the input is neither empty nor
\* blank and has neither an '@lat,lon' nor a 'q=lat,lon' match; in every
\* other case it is not called.
C17_GetOnlyWhenNeeded ==
    probe.returned =>
        (probe.gets > 0 <=> /\ probe.link # ""
                            /\ ~IsBlank(probe.link)
                            /\ SearchAt(probe.link) = None
                            /\ SearchQ(probe.link) = None)

\* C17 happens: a whitespace-only input was answered without the network
C17_Reached ==
    /\ probe.returned
    /\ probe.link = "  "
    /\ probe.gets = 0
    /\ probe.coords = None

\* no strategy finds a pair: the link has none and the response has none
NothingMatches(link, net) ==
    /\ SearchAt(link) = None
    /\ SearchQ(link) = None
    /\ ~net.raised
    /\ SearchAt(net.url) = None
    /\ SearchQ(net.url) = None
    /\ SearchBare(net.text) = None

\* C18: no exception leaves the function; when requests.get raises (error or
\* timeout) and when no strategy matches the value returned is None; and one
\* call makes at most one call of requests.get.
C18_FailureIsNone ==
    probe.returned =>
        /\ ~probe.raised
        /\ probe.gets <= 1
        /\ (probe.gets = 1 /\ probe.net.raised) => probe.coords = None
        /\ NothingMatches(probe.link, probe.net) => probe.coords = None

\* C18 happens: the link had to be resolved, requests.get raised, and the
\* call returned None
C18_Reached ==
    /\ probe.returned
    /\ probe.gets = 1
    /\ probe.net.raised
    /\ ~probe.raised
    /\ probe.coords = None

-----------------------------------------------------------------------------
(* find_nearest_odp called on its own, on every ODP tab of at most MaxRows *)
(* rows drawn from ProbeRows, from every point of ProbePoints, with every  *)
(* limit of ProbeLimits.                                                   *)

\* rows of the ODP tab under its header
MaxRows == 3

ProbeHeader == <<"STO", "ODP", "LATITUDE", "LONGITUDE", "AVAI">>

\* rows as worksheet.get_all_values() delivers them: every cell a string, an
\* empty cell the empty string
ProbeRows == {<<"BDG", "ODP-BDG-01", "-6.9", "107.6", "4">>,
              <<"JKT", "ODP-JKT-07", "-6.2", "106.8", "">>,
              <<"CMH", "ODP-CMH-03", "-6.8", "107.5", "2">>,
              <<"LBG", "ODP-LBG-02", "", "107.6", "1">>,
              <<"", "ODP-SBG-05", "-6.2", "106.8", "3">>}

\* the tab could not be read, or it has the header and up to MaxRows rows
ProbeSheets ==
    {SheetUnavailable} \cup
    UNION {{SheetData(<<ProbeHeader>> \o rows) : rows \in [1..n -> ProbeRows]} : n \in 0..MaxRows}

\* query points, in thousandths of a degree
ProbePoints == {<<-6200, 106800>>, <<-6850, 107550>>}

ProbeLimits == {1, 2, 5}

InitNearest ==
    /\ BotIdle
    /\ \E data \in ProbeSheets : \E at \in ProbePoints : \E limit \in ProbeLimits :
       \E ties \in TieOrders :
           probe = [data |-> data, lat |-> at[1], lon |-> at[2], limit |-> limit,
                    ties |-> ties, returned |-> FALSE, result |-> Unavailable]

CallNearest ==
    /\ ~probe.returned
    /\ \E r \in {find_nearest_odp(probe.data, probe.lat, probe.lon, probe.limit, probe.ties)} :
           probe' = [probe EXCEPT !.returned = TRUE, !.result = r]
    /\ UNCHANGED botvars

NextNearest == CallNearest

SpecNearest == InitNearest /\ [][NextNearest]_vars

\* a row of the tab with its four mandatory cells: STO and ODP not empty,
\* LATITUDE and LONGITUDE numbers
Eligible(row) ==
    /\ row[1] # ""
    /\ row[2] # ""
    /\ IsFloat(row[3])
    /\ IsFloat(row[4])

\* the rows of the tab `data` under the header, and the eligible ones
RowsOf(data) == {data.rows[i] : i \in 2..Len(data.rows)}
EligibleRows(data) == {i \in 2..Len(data.rows) : Eligible(data.rows[i])}

\* the distance of the row i of the tab from the point (lat, lon)
RowDistance(data, i, lat, lon) ==
    Distance(lat, lon, ParseFloat(data.rows[i][3]), ParseFloat(data.rows[i][4]))

\* the result has the number of rows asked for, or all the rows in `among`
\* if they are fewer; its rows are in non-decreasing order of DISTANCE_KM and
\* its first row is at the least distance of the rows in `among`
NearestOf(result, data, among, lat, lon, limit) ==
    /\ result.ok
    /\ Len(result.rows) = (IF Cardinality(among) < limit THEN Cardinality(among) ELSE limit)
    /\ \A i \in 1..(Len(result.rows) - 1) :
           result.rows[i].DISTANCE_KM <= result.rows[i + 1].DISTANCE_KM
    /\ \A i \in among : result.rows[1].DISTANCE_KM <= RowDistance(data, i, lat, lon)
    /\ \E i \in among : result.rows[1].DISTANCE_KM = RowDistance(data, i, lat, lon)

\* C19: on a tab that has rows, all of them eligible, find_nearest_odp with
\* limit k returns min(k, number of rows) rows in non-decreasing order of
\* DISTANCE_KM, the first at the least distance of all rows from the query
\* point.
C19_NearestFirst ==
    (/\ probe.returned
     /\ Len(probe.data.rows) > 1
     /\ \A row \in RowsOf(probe.data) : Eligible(row)) =>
        NearestOf(probe.result, probe.data, 2..Len(probe.data.rows),
                  probe.lat, probe.lon, probe.limit)

\* C19 happens: a tab of three eligible rows was searched with limit 2, and
\* the nearest row is not the first row of the tab
C19_Reached ==
    /\ probe.returned
    /\ \A row \in RowsOf(probe.data) : Eligible(row)
    /\ Len(probe.data.rows) = 4
    /\ probe.limit = 2
    /\ Len(probe.result.rows) = 2
    /\ probe.result.rows[1].ODP # probe.data.rows[2][2]
    /\ probe.result.rows[1].DISTANCE_KM < probe.result.rows[2].DISTANCE_KM

\* C20: on a tab with a row whose STO, ODP, LATITUDE or LONGITUDE cell is
\* empty, and at least one eligible row, find_nearest_odp returns the nearest
\* eligible rows for every limit: the search does not fail, and no row with
\* an empty mandatory cell is in the result.
C20_IncompleteRowsSkipped ==
    (/\ probe.returned
     /\ \E row \in RowsOf(probe.data) : ~Eligible(row)
     /\ EligibleRows(probe.data) # {}) =>
        /\ NearestOf(probe.result, probe.data, EligibleRows(probe.data),
                     probe.lat, probe.lon, probe.limit)
        /\ \A i \in 1..Len(probe.result.rows) :
               probe.result.rows[i].STO # "" /\ probe.result.rows[i].ODP # ""

-----------------------------------------------------------------------------
(* The empty reference set, and rows at the same distance.                 *)

\* what find_nearest_odp returns for "no row found": a frame without rows
NoneFound == Frame(<<>>)

\* what process_odp_nearest tells the user who asked from the probe's point,
\* when the tab read is `data`
OdpAnswer(data) ==
    ResumeOdpSearch(Now, Message("u1", "", Geo(probe.lat, probe.lon), FALSE),
                    [GoodEnv("u1") EXCEPT !.sheet = data, !.ties = probe.ties],
                    "location_handler").out.msg

\* C21: on a tab that was read and has no eligible row (the header alone, or
\* rows that all lack a mandatory cell), find_nearest_odp returns the empty
\* frame, which is not the value it returns for a tab that could not be read,
\* and the /odp flow tells the user something else than for an unreadable tab.
C21_EmptyIsNotUnavailable ==
    (/\ probe.returned
     /\ probe.data.loaded
     /\ EligibleRows(probe.data) = {}) =>
        /\ probe.result = NoneFound
        /\ probe.result # find_nearest_odp(SheetUnavailable, probe.lat, probe.lon,
                                            probe.limit, probe.ties)
        /\ OdpAnswer(probe.data) # OdpAnswer(SheetUnavailable)

\* the rows of the result are rows of the tab taken in order of distance, and
\* in the order of the tab where the distance is the same: f[i] is the place
\* in the tab of the i-th row of the result
InSheetOrder(result, data, lat, lon) ==
    \E f \in [1..Len(result.rows) -> 2..Len(data.rows)] :
        /\ \A i \in 1..Len(result.rows) :
               /\ result.rows[i].STO = data.rows[f[i]][1]
               /\ result.rows[i].ODP = data.rows[f[i]][2]
               /\ result.rows[i].DISTANCE_KM = RowDistance(data, f[i], lat, lon)
        /\ \A i, j \in 1..Len(result.rows) :
               i < j => \/ RowDistance(data, f[i], lat, lon) < RowDistance(data, f[j], lat, lon)
                        \/ /\ RowDistance(data, f[i], lat, lon) = RowDistance(data, f[j], lat, lon)
                           /\ f[i] < f[j]

-----------------------------------------------------------------------------
(* What the record carries of the ODP, of the photo, and of the fields.    *)

\* str.lower() on the capital letters of a column name
RECURSIVE Lower(_)
Lower(s) ==
    IF s = "" THEN ""
    ELSE LET c == Char(s, 1)
             up == "ABCDEFGHIJKLMNOPQRSTUVWXYZ"
             low == "abcdefghijklmnopqrstuvwxyz"
         IN  (IF \E i \in 1..26 : Char(up, i) = c
              THEN Char(low, CHOOSE i \in 1..26 : Char(up, i) = c)
              ELSE c) \o Lower(SubSeq(s, 2, Len(s)))

\* the places in the header of the columns that are not STO, ODP, LATITUDE,
\* LONGITUDE or AVAI
ExtraColumns(data) ==
    {i \in 1..Len(data.rows[1]) :
         data.rows[1][i] \notin {"STO", "ODP", "LATITUDE", "LONGITUDE", "AVAI"}}

\* the dict `info` has under `key` the cell in column i of the row of the tab
\* that has the STO and ODP named by `sto` and `odp`
CarriesCell(info, key, data, i, sto, odp) ==
    /\ key \in DOMAIN info
    /\ \E r \in 2..Len(data.rows) :
           /\ data.rows[r][ColumnOf(data.rows[1], "STO")] = sto
           /\ data.rows[r][ColumnOf(data.rows[1], "ODP")] = odp
           /\ info[key] = data.rows[r][i]

\* C23: when a session has the ODP of a row of the tab attached, its odp_info
\* has every other column of that row under the column's name, and a record
\* saved with an ODP has each under 'odp_' and the name in lower case.
C23_ExtraColumnsCarried ==
    /\ \A u \in DOMAIN user_data :
           user_data[u].odp_info # NoDict =>
               \A i \in ExtraColumns(OdpSheet) :
                   CarriesCell(user_data[u].odp_info, OdpSheet.rows[1][i], OdpSheet, i,
                               user_data[u].odp_info.STO, user_data[u].odp_info.ODP)
    /\ (last_saved # NoDict /\ "odp_odp" \in DOMAIN last_saved) =>
           \A i \in ExtraColumns(OdpSheet) :
               CarriesCell(last_saved, "odp_" \o Lower(OdpSheet.rows[1][i]), OdpSheet, i,
                           last_saved.odp_sto, last_saved.odp_odp)

\* C24: a record saved for a session that had no ODP attached names it so:
\* its sto and odp have a value, neither None nor the empty string.
C24_NoOdpIsMarked ==
    (last_saved # NoDict /\ "odp_odp" \notin DOMAIN last_saved) =>
        /\ last_saved.sto \notin {None, ""}
        /\ last_saved.odp \notin {None, ""}

\* the dispatches of a photo that stand at event.download_media()
AtDownload == {t \in BagToSet(tasks) : t.pc = "download_media"}

\* C25: whatever the download and the upload do, the photo handler goes on to
\* call save_to_spreadsheet, once, and the record it hands over has a string
\* in file_link: the link, or a placeholder text, never None.
C25_FileLinkNeverNone ==
    \A t \in AtDownload : \A env \in EnvsAt[t.e]["download_media"] :
        Has(user_data, t.e.user) =>
            \E r \in {RunOn(Now, t, env)} :
                /\ r.S.ls # NoDict
                /\ r.S.sc[user_data[t.e.user].sid] =
                       (IF Has(save_calls, user_data[t.e.user].sid)
                        THEN save_calls[user_data[t.e.user].sid] ELSE 0) + 1
                /\ r.S.ls.file_link # None

-----------------------------------------------------------------------------
(* Emissions that fail.                                                    *)

\* the dispatch t taken up with env and run to its end, every later awaited
\* call returning
Ended(t, env) ==
    Bind(RunOn(Now, t, env), LAMBDA r : Finish(r, t.e, [env EXCEPT !.emit = TRUE]))

\* the sessions, the user states and the ODP flags
SessionState(S) == <<S.ud, S.us, S.os>>

\* C26: a handler that waits for an emission leaves the same session state
\* behind when the emission fails as when it is delivered.
C26_EmissionFailureKeepsState ==
    \A t \in BagToSet(tasks) : \A env \in EnvsAt[t.e][t.pc] :
        SessionState(Ended(t, env)) = SessionState(Ended(t, [env EXCEPT !.emit = TRUE]))

-----------------------------------------------------------------------------
(* Fields written once.                                                    *)

\* the fields a session collects, with the two links
WriteOnce == CollectedFields \cup {"link_gmaps", "file_link"}

\* a value no handler assigns: put in the place of the value of a field, it
\* is still there after a run if and only if the run did not assign the field
Mark == "<assigned before>"

Marked(S, u, f) == SetField(S, u, f, Mark)

\* the run r left the session of u there, and did not assign its field f
NotAssigned(r, u, f) ==
    (Has(r.S.ud, u) /\ r.S.ud[u].sid = user_data[u].sid) => r.S.ud[u][f] = Mark

\* C27: no step of a handler assigns a field of a session that has been
\* assigned before in that session: not the handling of a new event up to its
\* first await, and not the resumption of a handler that waits.
C27_FieldsWrittenOnce ==
    \A u \in DOMAIN user_data : \A f \in WriteOnce :
        user_data[u][f] # None =>
            /\ received < MaxEvents =>
                   \A e \in EventsOf(u) : \A env \in EnvsAt[e]["arrive"] :
                       NotAssigned(RunFrom(Marked(Now, u, f), e, 1, env), u, f)
            /\ \A t \in BagToSet(tasks) : \A env \in EnvsAt[t.e][t.pc] :
                   NotAssigned(RunOn(Marked(Now, u, f), t, env), u, f)

-----------------------------------------------------------------------------
(* The ODP of a session, and the tab read anew.                            *)

\* what a session holds of the ODP
OdpOf(d) == <<d.odp_info, d.sto, d.odp>>

\* the session of u is resolving its own location in this step: it stands at
\* step location and the user is not waiting for an /odp answer
Resolving(u) == user_data[u].step = "location" /\ ~OdpWaiting(Now, u)

\* once a session has an ODP, no step changes it but a resolution of the
\* session's own location: not a step that reads another tab, not an /odp
\* query, not a reply or a save
C28_Frame ==
    \A u \in Users :
        (SameSession(u) /\ user_data[u].odp_info # NoDict /\ ~Resolving(u)) =>
            OdpOf(user_data'[u]) = OdpOf(user_data[u])

\* an /odp query is answered from the tab read in the step of the query,
\* whatever ODP the user's session holds
C28_Fresh ==
    \A t \in BagToSet(tasks) : \A env \in EnvsAt[t.e][t.pc] :
        (t.pc = "odp_search" /\ env.emit) =>
            \E r \in {RunOn(Now, t, env)} :
                /\ r.out.msg = "odp_sheet_failed" <=> env.sheet \in Unsearchable
                /\ r.out.msg = "odp_results" <=> env.sheet \notin Unsearchable
                /\ r.S.ud = user_data

-----------------------------------------------------------------------------
(* The channel notification.                                               *)

\* the message pushed to the channel
ChannelMessage == [to |-> ChannelTarget, msg |-> "channel_message"]

\* the number of save calls made for the session sid so far
SavesOf(calls, sid) == IF Has(calls, sid) THEN calls[sid] ELSE 0

\* C29: a photo handler that got True from save_to_spreadsheet sends the
\* summary and then the channel notification; one that got False sends the
\* failure reply and no channel notification; a channel notification is sent
\* by a handler that got True only; and after its one save call the handler
\* makes no other.
C29_ChannelIffSaved ==
    [][\A t \in BagToSet(tasks) : \A env \in EnvsAt[t.e][t.pc] :
          /\ (t.pc = "download_media" /\ Has(user_data, t.e.user) /\ Resume(t, env))
             => /\ SavesOf(save_calls', user_data[t.e.user].sid)
                       = SavesOf(save_calls, user_data[t.e.user].sid) + 1
                /\ out' = Reply(t.e, IF env.save THEN "summary" ELSE "save_failed")
                /\ Suspends(t.e, t.h, IF env.save THEN "send_channel" ELSE "reset_state")
          /\ (t.pc = "send_channel" /\ Resume(t, env))
             => /\ out' = ChannelMessage
                /\ save_calls' = save_calls
          /\ (t.pc = "reset_state" /\ Resume(t, env))
             => /\ out' # ChannelMessage
                /\ save_calls' = save_calls
          /\ (out' = ChannelMessage /\ Resume(t, env)) => t.pc = "send_channel"]_vars

-----------------------------------------------------------------------------
(* Text where no text is asked for.                                        *)

\* the steps that ask for a button, a location or a photo
QuietSteps == {"jenis_usaha", "internet", "kecepatan", "biaya", "location", "photo"}

\* C30: a message of plain text (no command, no map link, no media) received
\* while the step of the session asks for a button, a location or a photo
\* changes nothing: the session, its step and fields, and the user's state
\* stay as they are, nothing is sent, and no handler is left waiting.
C30_TextIgnoredAtQuietSteps ==
    [][\A u \in Users : \A text \in PlainTexts :
          \A env \in EnvsAt[Message(u, text, NoGeo, FALSE)]["arrive"] :
              (/\ Has(user_data, u)
               /\ user_data[u].step \in QuietSteps
               /\ Arrive(Message(u, text, NoGeo, FALSE), env))
              => /\ user_data' = user_data
                 /\ user_state' = user_state
                 /\ odp_user_state' = odp_user_state
                 /\ out' = NoOut
                 /\ tasks' = tasks]_vars

\* C30 happens: an update has been received by a session that waits for the
\* first button, and the session still waits for it with no choice stored,
\* nothing sent and no handler waiting
C30_Reached ==
    \E u \in Users :
        /\ Has(user_data, u)
        /\ user_data[u].step = "jenis_usaha"
        /\ user_data[u].jenis_usaha = None
        /\ user_data[u].hpwa # None
        /\ received = 1
        /\ out = NoOut
        /\ tasks = EmptyBag
        /\ raised = {}

-----------------------------------------------------------------------------
(* Updates that find no session.                                           *)

\* no entry in user_data and no ODP-waiting flag
Sessionless(u) == ~Has(user_data, u) /\ ~OdpWaiting(Now, u)

\* the updates a session answers to besides text: a button, a live
\* location, a map link, a photo
SessionInputs(u) ==
    Listed({e \in EventsOf(u) :
                \/ e.kind = "callback"
                \/ e.kind = "message" /\ (e.geo.has \/ IsMapsLink(e.text) \/ e.photo)})

\* the step changed none of the three dictionaries, and no handler raised
\* (an awaited send that fails, env.emit = FALSE, raises on its own account)
NoEffect(env) ==
    /\ user_data' = user_data
    /\ user_state' = user_state
    /\ odp_user_state' = odp_user_state
    /\ env.emit => raised' = {}

\* C31: for a user with no entry in user_data and no ODP-waiting flag, a
\* button callback, a live location, a map link or a photo changes neither
\* user_data nor user_state nor odp_user_state, and no handler raises: at its
\* arrival, and when its dispatch goes on from the only await such an
\* arrival can stop at (message_handler's reply to a user it does not know).
C31_NoSessionNoEffect ==
    [][\A u \in Users : \A e \in SessionInputs(u) :
          Sessionless(u) =>
              /\ \A env \in EnvsAt[e]["arrive"] : Arrive(e, env) => NoEffect(env)
              /\ \A t \in BagToSet(tasks) :
                     (t.e = e /\ t.pc = "tail" /\ Handlers[t.h] = "message_handler")
                     => \A env \in EnvsAt[e][t.pc] : Resume(t, env) => NoEffect(env)]_vars

\* C31 happens: the photo of a user the program has never seen is in
\* dispatch, stopped at message_handler's reply, with every dictionary still
\* empty and nothing raised
C31_Reached ==
    \E t \in BagToSet(tasks) :
        /\ t.e.kind = "message" /\ t.e.photo
        /\ t.pc = "tail"
        /\ Handlers[t.h] = "message_handler"
        /\ user_data = <<>> /\ user_state = <<>> /\ odp_user_state = <<>>
        /\ raised = {}

-----------------------------------------------------------------------------
(* extract_coords_from_gmaps_link after requests.get.                      *)

\* the call went to the network and got a response
Resolved == probe.returned /\ probe.gets = 1 /\ ~probe.net.raised

\* C32: after the HTTP GET the '@lat,lon' pattern is tried on the final URL
\* before the 'q=lat,lon' pattern, and the body is scanned for a bare pair
\* only when neither matches the final URL: the value returned is the '@'
\* pair of the final URL when it has one, else its 'q=' pair when it has
\* one, else the first bare pair of the body (None without one).
C32_FinalUrlBeforeBody ==
    Resolved =>
        /\ SearchAt(probe.net.url) # None => probe.coords = SearchAt(probe.net.url)
        /\ (SearchAt(probe.net.url) = None /\ SearchQ(probe.net.url) # None)
               => probe.coords = SearchQ(probe.net.url)
        /\ (SearchAt(probe.net.url) = None /\ SearchQ(probe.net.url) = None)
               => probe.coords = SearchBare(probe.net.text)

\* C32 happens: a short link was resolved, the final URL has a 'q=' pair
\* and the body another pair, and the pair of the URL was returned
C32_Reached ==
    /\ Resolved
    /\ SearchAt(probe.link) = None /\ SearchQ(probe.link) = None
    /\ SearchAt(probe.net.url) = None
    /\ SearchQ(probe.net.url) = "-7.1,110.4"
    /\ SearchBare(probe.net.text) = "-1.5,2.5"
    /\ probe.coords = "-7.1,110.4"

-----------------------------------------------------------------------------
(* Sessions and the user's state.                                          *)

\* C33: in every reachable state a user has an entry in user_data exactly
\* when user_state of that user is 'adding': no entry outlives the state
\* 'adding', and 'adding' never holds without an entry.
C33_EntryIffAdding ==
    \A u \in Users :
        Has(user_data, u) <=> (Has(user_state, u) /\ user_state[u] = "adding")

\* the session of u was abandoned: /start has set the state back to
\* 'started' while the entry of the session is still in user_data
Abandoned(u) == Has(user_data, u) /\ Has(user_state, u) /\ user_state[u] = "started"

\* C34: after /start in the middle of a session, no later button callback,
\* live location, map link or photo advances or finalizes the abandoned
\* session: handled to its end, each of them leaves user_data as it is and
\* adds no call of save_to_spreadsheet.
C34_AbandonedSessionIsDead ==
    \A u \in Users :
        Abandoned(u) =>
            \A e \in SessionInputs(u) :
                Bind(Handle(Now, e, GoodEnv(u)), LAMBDA S :
                     S.ud = user_data /\ S.sc = save_calls)

-----------------------------------------------------------------------------
(* A new session while photo_handler waits.                                *)

\* the dispatches that wait inside photo_handler
PhotoWaits ==
    {t \in BagToSet(tasks) :
         Handlers[t.h] = "photo_handler" /\ t.pc \in {"download_media", "send_channel", "reset_state"}}

\* the program state after u sends /start and then /add, each handled to
\* its end
Restarted(S, u) ==
    Bind(Handle(S, Message(u, "/start", NoGeo, FALSE), GoodEnv(u)), LAMBDA S1 :
         Handle(S1, AddCommand(u), GoodEnv(u)))

\* C35: the session photo_handler removes, and the data it saves, belong to
\* the session that was at step photo when the photo arrived: when /start
\* and /add create a new session while photo_handler waits at an await, the
\* handler, run on to its end, neither calls save_to_spreadsheet with the
\* new session nor removes it from user_data.
C35_PhotoEndsItsOwnSession ==
    \A t \in PhotoWaits :
        Has(user_data, t.e.user) =>
            Bind(Restarted(Now, t.e.user), LAMBDA S :
                 Bind(Finish(RunOn(S, t, GoodEnv(t.e.user)), t.e, GoodEnv(t.e.user)), LAMBDA F :
                      /\ S.ud[t.e.user].sid # user_data[t.e.user].sid
                      /\ Has(F.ud, t.e.user)
                      /\ F.ud[t.e.user].sid = S.ud[t.e.user].sid
                      /\ SavesOf(F.sc, S.ud[t.e.user].sid) = 0))

-----------------------------------------------------------------------------
(* /start of a registered user.                                            *)

StartCommand(u) == Message(u, "/start", NoGeo, FALSE)

\* C36: for a registered user (get_user_credentials returns the profile)
\* start_handler completes without raising and sends the welcome message
\* built from the profile: every key format_welcome_message reads is in it.
C36_RegisteredUserIsWelcomed ==
    [][\A u \in Users : \A env \in EnvsAt[StartCommand(u)]["arrive"] :
          (env.creds # NoDict /\ Arrive(StartCommand(u), env))
          => /\ WelcomeKeys \subseteq DOMAIN env.creds
             /\ "start_handler" \notin raised'
             /\ out' = Reply(StartCommand(u), "welcome")]_vars

-----------------------------------------------------------------------------
(* The link location_handler builds, sent back as a text.                  *)

\* C37: round trip of the generated map link: the link_gmaps value that
\* location_handler builds for a live location, sent as text by a user
\* whose session is at step location, is accepted as a map link (the filter
\* of gmaps_handler matches it) and yields the same coordinates and the
\* same transition to photo as the live location did.
C37_GeneratedLinkRoundTrip ==
    \A u \in Users : \A geo \in GeoPoints :
        AtLocationStep(u) =>
            Bind(Handle(Now, Message(u, "", geo, FALSE), GoodEnv(u)), LAMBDA A :
                 Bind(Message(u, A.ud[u].link_gmaps, NoGeo, FALSE), LAMBDA echo :
                      Bind(Handle(Now, echo, GoodEnv(u)), LAMBDA B :
                           /\ A.ud[u].step = "photo"
                           /\ Filter("gmaps_handler", echo)
                           /\ B.ud[u].location = A.ud[u].location
                           /\ B.ud[u].step = "photo")))

====
